---- MODULE Spec2Model ----
(***************************************************************************)
(* ReclamaAI: the complaint workflow (anonymize, analyze, route,           *)
(* communicate) of ComplaintOrchestrator and the stage agents it drives.   *)
(*                                                                         *)
(* Python strings are sequences of one-character strings.  A replacement   *)
(* marker such as "[CPF REMOVIDO]" is kept as one element of the sequence: *)
(* its first and last characters ("[" and "]") belong to no character      *)
(* class of any PII pattern and it holds no digit and no "@", so no later  *)
(* pattern can match inside or across it.                                  *)
(* An Optional[...] field is a sequence of length 0 (None) or 1.           *)
(***************************************************************************)
EXTENDS Integers, Sequences, FiniteSets, TLC

\* ------------------------------------------------------------------------
\* Characters and Python string helpers
\* ------------------------------------------------------------------------
Digits == {"0", "1", "2", "3", "4", "5", "6", "7", "8", "9"}

LowerLetters ==
    {"a", "b", "c", "d", "e", "f", "g", "h", "i", "j", "k", "l", "m",
     "n", "o", "p", "q", "r", "s", "t", "u", "v", "w", "x", "y", "z"}

UpperLetters ==
    {"A", "B", "C", "D", "E", "F", "G", "H", "I", "J", "K", "L", "M",
     "N", "O", "P", "Q", "R", "S", "T", "U", "V", "W", "X", "Y", "Z"}

Whitespace == {" ", "\t", "\n"}

None == <<>>

Some(v) == <<v>>

\* A value that is not a str (e.g. the int 123 assigned to a field: the
\* models do not validate on assignment).  It is truthy.
NonString == <<"<int 123>">>

IsStr(t) == t # NonString

\* ------------------------------------------------------------------------
\* re: patterns as sequences of quantified character classes,
\* matched greedily with backtracking, leftmost first
\* ------------------------------------------------------------------------
Unbounded == 0 - 1

Item(cls, lo, hi) == [cls |-> cls, lo |-> lo, hi |-> hi]

SepClass == Whitespace \cup {"-"}

EmailLocalClass == LowerLetters \cup UpperLetters \cup Digits \cup {"_", ".", "+", "-"}

EmailDomainClass == LowerLetters \cup UpperLetters \cup Digits \cup {"-"}

EmailTldClass == LowerLetters \cup UpperLetters \cup Digits \cup {"-", "."}

CartaoPattern ==
    << Item(Digits, 4, 4), Item(SepClass, 0, 1), Item(Digits, 4, 4), Item(SepClass, 0, 1),
       Item(Digits, 4, 4), Item(SepClass, 0, 1), Item(Digits, 4, 4) >>

CpfPattern ==
    << Item(Digits, 3, 3), Item({"."}, 0, 1), Item(Digits, 3, 3), Item({"."}, 0, 1),
       Item(Digits, 3, 3), Item({"-"}, 0, 1), Item(Digits, 2, 2) >>

EmailPattern ==
    << Item(EmailLocalClass, 1, Unbounded), Item({"@"}, 1, 1),
       Item(EmailDomainClass, 1, Unbounded), Item({"."}, 1, 1),
       Item(EmailTldClass, 1, Unbounded) >>

TelefonePattern ==
    << Item({"("}, 0, 1), Item(Digits, 2, 2), Item({")"}, 0, 1), Item(SepClass, 0, 1),
       Item(Digits, 4, 5), Item({"-"}, 0, 1), Item(Digits, 4, 4) >>

\* The patterns with the CPF pattern applied before the card pattern
PII_PATTERNSCpfFirst ==
    << [name |-> "cpf",      pattern |-> CpfPattern,      replacement |-> "[CPF REMOVIDO]"],
       [name |-> "cartao",   pattern |-> CartaoPattern,   replacement |-> "[CARTÃO REMOVIDO]"],
       [name |-> "email",    pattern |-> EmailPattern,    replacement |-> "[EMAIL REMOVIDO]"],
       [name |-> "telefone", pattern |-> TelefonePattern, replacement |-> "[TELEFONE REMOVIDO]"] >>

PII_PATTERNS ==
    << [name |-> "cartao",   pattern |-> CartaoPattern,   replacement |-> "[CARTÃO REMOVIDO]"],
       [name |-> "cpf",      pattern |-> CpfPattern,      replacement |-> "[CPF REMOVIDO]"],
       [name |-> "email",    pattern |-> EmailPattern,    replacement |-> "[EMAIL REMOVIDO]"],
       [name |-> "telefone", pattern |-> TelefonePattern, replacement |-> "[TELEFONE REMOVIDO]"] >>

\* The number of consecutive characters of text from pos on that are in cls,
\* at most hi of them.
RECURSIVE RunLen(_, _, _, _)
RunLen(cls, text, pos, hi) ==
    IF hi = 0 \/ pos > Len(text) \/ text[pos] \notin cls
    THEN 0
    ELSE 1 + RunLen(cls, text, pos + 1, IF hi = Unbounded THEN Unbounded ELSE hi - 1)

\* The position just after the match of items k.. of re that starts at pos,
\* or 0 when there is none.  Each item first takes as many characters as it
\* can and gives them back one at a time.
RECURSIVE MatchFrom(_, _, _, _)
RECURSIVE TryCounts(_, _, _, _, _)
MatchFrom(re, k, text, pos) ==
    IF k > Len(re)
    THEN pos
    ELSE TryCounts(re, k, text, pos, RunLen(re[k].cls, text, pos, re[k].hi))

TryCounts(re, k, text, pos, n) ==
    IF n < re[k].lo
    THEN 0
    ELSE LET r == MatchFrom(re, k + 1, text, pos + n)
         IN  IF r # 0 THEN r ELSE TryCounts(re, k, text, pos, n - 1)

\* pattern.subn(replacement, text) from position pos on: the non-overlapping
\* matches, leftmost first, each replaced as a whole.
RECURSIVE SubN(_, _, _, _)
SubN(re, replacement, text, pos) ==
    IF pos > Len(text)
    THEN [text |-> <<>>, count |-> 0]
    ELSE LET e == MatchFrom(re, 1, text, pos)
         IN  IF e # 0
             THEN LET r == SubN(re, replacement, text, e)
                  IN  [text |-> <<replacement>> \o r.text, count |-> r.count + 1]
             ELSE LET r == SubN(re, replacement, text, pos + 1)
                  IN  [text |-> <<text[pos]>> \o r.text, count |-> r.count]

\* ------------------------------------------------------------------------
\* PrivacyAgent
\* ------------------------------------------------------------------------
\* A loop that counts a substitution for each pattern it applies
RECURSIVE MaskLoopCountsPasses(_, _, _)
MaskLoopCountsPasses(k, masked_text, total_replacements) ==
    IF k > Len(PII_PATTERNS)
    THEN [text |-> masked_text, count |-> total_replacements]
    ELSE LET r == SubN(PII_PATTERNS[k].pattern, PII_PATTERNS[k].replacement, masked_text, 1)
         IN  MaskLoopCountsPasses(k + 1, r.text, total_replacements + r.count + 1)

\* The loop of _mask_pii over the patterns k.. in their declared order.
RECURSIVE MaskLoop(_, _, _)
MaskLoop(k, masked_text, total_replacements) ==
    IF k > Len(PII_PATTERNS)
    THEN [text |-> masked_text, count |-> total_replacements]
    ELSE LET r == SubN(PII_PATTERNS[k].pattern, PII_PATTERNS[k].replacement, masked_text, 1)
         IN  MaskLoop(k + 1, r.text, total_replacements + r.count)

\* _mask_pii(text) for a str or None; [text, count].
MaskPii(text) ==
    IF text = <<>>
    THEN [text |-> text, count |-> 0]
    ELSE MaskLoop(1, text, 0)

\* ------------------------------------------------------------------------
\* str methods
\* ------------------------------------------------------------------------
UpperSeq ==
    <<"A", "B", "C", "D", "E", "F", "G", "H", "I", "J", "K", "L", "M",
      "N", "O", "P", "Q", "R", "S", "T", "U", "V", "W", "X", "Y", "Z",
      "Á", "À", "Â", "Ã", "É", "Ê", "Í", "Ó", "Ô", "Õ", "Ú", "Ç">>

LowerSeq ==
    <<"a", "b", "c", "d", "e", "f", "g", "h", "i", "j", "k", "l", "m",
      "n", "o", "p", "q", "r", "s", "t", "u", "v", "w", "x", "y", "z",
      "á", "à", "â", "ã", "é", "ê", "í", "ó", "ô", "õ", "ú", "ç">>

LowerChar(c) ==
    IF \E i \in 1..Len(UpperSeq) : UpperSeq[i] = c
    THEN LowerSeq[CHOOSE i \in 1..Len(UpperSeq) : UpperSeq[i] = c]
    ELSE c

\* s.lower()
Lower(s) == [i \in 1..Len(s) |-> LowerChar(s[i])]

RECURSIVE LStrip(_)
LStrip(s) == IF s # <<>> /\ Head(s) \in Whitespace THEN LStrip(Tail(s)) ELSE s

RECURSIVE RStrip(_)
RStrip(s) ==
    IF s # <<>> /\ s[Len(s)] \in Whitespace THEN RStrip(SubSeq(s, 1, Len(s) - 1)) ELSE s

\* s.strip()
Strip(s) == RStrip(LStrip(s))

\* sub in s
Contains(sub, s) ==
    \E i \in 0..(Len(s) - Len(sub)) : SubSeq(s, i + 1, i + Len(sub)) = sub

\* s.startswith(prefix)
StartsWith(s, prefix) ==
    Len(prefix) <= Len(s) /\ SubSeq(s, 1, Len(prefix)) = prefix

\* d.get(key, default) for a dict d (a function on the keys it holds)
DictGet(d, key, default) == IF key \in DOMAIN d THEN d[key] ELSE default

\* The index of the first entry of a list of [key, value] pairs whose key is
\* k, or 0.
KeyIndex(mappings, k) ==
    IF \E i \in 1..Len(mappings) : mappings[i].key = k
    THEN CHOOSE i \in 1..Len(mappings) :
             mappings[i].key = k /\ \A j \in 1..(i - 1) : mappings[j].key # k
    ELSE 0

\* ------------------------------------------------------------------------
\* String literals
\* ------------------------------------------------------------------------
\* The texts execute appends to errors (base.py)
BaseText ==
    [invalid_input_state |-> <<"I", "n", "v", "a", "l", "i", "d", " ", "i", "n", "p",
         "u", "t", " ", "s", "t", "a", "t", "e">>,
     unexpected |-> <<"U", "n", "e", "x", "p", "e", "c", "t", "e", "d", ":", " ">>]

\* The literals of AnalystAgent (analyst.py)
AnalystText ==
    [name |-> <<"a", "n", "a", "l", "y", "s", "t">>,
     llm_analysis_failed |-> <<"L", "L", "M", " ", "a", "n", "a", "l", "y", "s", "i",
         "s", " ", "f", "a", "i", "l", "e", "d", ":", " ">>,
     llm_client_not_initialized |-> <<"L", "L", "M", " ", "c", "l", "i", "e", "n", "t",
         " ", "n", "o", "t", " ", "i", "n", "i", "t", "i", "a", "l", "i", "z", "e", "d">>,
     erro_ao_processar |-> <<"E", "r", "r", "o", " ", "a", "o", " ", "p", "r", "o",
         "c", "e", "s", "s", "a", "r", " ", "a", "n", "á", "l", "i", "s", "e">>,
     analise_falhou |-> <<"A", "n", "á", "l", "i", "s", "e", " ", "a", "u", "t", "o",
         "m", "á", "t", "i", "c", "a", " ", "f", "a", "l", "h", "o", "u">>,
     resumo_nao_disponivel |-> <<"R", "e", "s", "u", "m", "o", " ", "n", "ã", "o", " ",
         "d", "i", "s", "p", "o", "n", "í", "v", "e", "l">>,
     insatisfeito |-> <<"i", "n", "s", "a", "t", "i", "s", "f", "e", "i", "t", "o">>,
     media |-> <<"m", "e", "d", "i", "a">>,
     attribute_error |-> <<"'", "s", "t", "r", "'", " ", "o", "b", "j", "e", "c", "t",
         " ", "h", "a", "s", " ", "n", "o", " ", "a", "t", "t", "r", "i", "b", "u",
         "t", "e", " ", "'", "i", "s", "o", "f", "o", "r", "m", "a", "t", "'">>]

\* The literals of RouterAgent (router.py)
RouterText ==
    [name |-> <<"r", "o", "u", "t", "e", "r">>,
     routing_failed |-> <<"R", "o", "u", "t", "i", "n", "g", " ", "f", "a", "i", "l",
         "e", "d", ":", " ">>,
     no_team_found |-> <<"N", "o", " ", "t", "e", "a", "m", " ", "f", "o", "u", "n",
         "d", " ", "f", "o", "r", " ", "c", "a", "t", "e", "g", "o", "r", "y", " ">>,
     atendimento |-> <<"a", "t", "e", "n", "d", "i", "m", "e", "n", "t", "o">>,
     n2 |-> <<"n", "2">>]

\* The literals of CommunicatorAgent (communicator.py)
CommunicatorText ==
    [name |-> <<"c", "o", "m", "m", "u", "n", "i", "c", "a", "t", "o", "r">>,
     communication_failed |-> <<"C", "o", "m", "m", "u", "n", "i", "c", "a", "t", "i",
         "o", "n", " ", "f", "a", "i", "l", "e", "d", ":", " ">>,
     jira_client_not_initialized |-> <<"J", "i", "r", "a", " ", "c", "l", "i", "e",
         "n", "t", " ", "n", "o", "t", " ", "i", "n", "i", "t", "i", "a", "l", "i",
         "z", "e", "d">>,
     email_client_not_initialized |-> <<"E", "m", "a", "i", "l", " ", "c", "l", "i",
         "e", "n", "t", " ", "n", "o", "t", " ", "i", "n", "i", "t", "i", "a", "l",
         "i", "z", "e", "d">>,
     ticket |-> <<"t", "i", "c", "k", "e", "t">>,
     jira |-> <<"j", "i", "r", "a">>]

S_LLMCallFailed ==
    <<"L", "L", "M", " ", "c", "a", "l", "l", " ", "f", "a", "i", "l", "e", "d", ":", " ">>

S_TypeError ==
    <<"e", "x", "p", "e", "c", "t", "e", "d", " ", "s", "t", "r", "i", "n", "g", " ", "o",
    "r", " ", "b", "y", "t", "e", "s", "-", "l", "i", "k", "e", " ", "o", "b", "j", "e",
    "c", "t">>

ComplaintCategory ==
    {"ATRASO_ENTREGA",
     "PRODUTO_NAO_ENTREGUE",
     "PRODUTO_DEFEITO",
     "PRODUTO_DIFERENTE",
     "COBRANCA_INDEVIDA",
     "REEMBOLSO_NAO_PROCESSADO",
     "ATENDIMENTO_RUIM",
     "PROBLEMA_VENDEDOR",
     "CANCELAMENTO_NEGADO",
     "DIFICULDADE_CONTATO"}

\* ComplaintCategory(member).value
CategoryValue(member) ==
    CASE member = "ATRASO_ENTREGA" ->
           <<"A", "t", "r", "a", "s", "o", " ", "n", "a", " ", "e", "n", "t", "r", "e", "g", "a">>
      [] member = "PRODUTO_NAO_ENTREGUE" ->
           <<"P", "r", "o", "d", "u", "t", "o", " ", "n", "ã", "o", " ", "e", "n", "t", "r", "e", "g", "u", "e">>
      [] member = "PRODUTO_DEFEITO" ->
           <<"P", "r", "o", "d", "u", "t", "o", " ", "c", "o", "m", " ", "d", "e", "f", "e", "i", "t", "o">>
      [] member = "PRODUTO_DIFERENTE" ->
           <<"P", "r", "o", "d", "u", "t", "o", " ", "d", "i", "f", "e", "r", "e", "n", "t", "e", " ", "d", "o", " ", "a", "n", "u", "n", "c", "i", "a", "d", "o">>
      [] member = "COBRANCA_INDEVIDA" ->
           <<"C", "o", "b", "r", "a", "n", "ç", "a", " ", "i", "n", "d", "e", "v", "i", "d", "a">>
      [] member = "REEMBOLSO_NAO_PROCESSADO" ->
           <<"R", "e", "e", "m", "b", "o", "l", "s", "o", " ", "n", "ã", "o", " ", "p", "r", "o", "c", "e", "s", "s", "a", "d", "o">>
      [] member = "ATENDIMENTO_RUIM" ->
           <<"A", "t", "e", "n", "d", "i", "m", "e", "n", "t", "o", " ", "r", "u", "i", "m">>
      [] member = "PROBLEMA_VENDEDOR" ->
           <<"P", "r", "o", "b", "l", "e", "m", "a", " ", "c", "o", "m", " ", "v", "e", "n", "d", "e", "d", "o", "r", " ", "(", "m", "a", "r", "k", "e", "t", "p", "l", "a", "c", "e", ")">>
      [] member = "CANCELAMENTO_NEGADO" ->
           <<"C", "a", "n", "c", "e", "l", "a", "m", "e", "n", "t", "o", " ", "n", "e", "g", "a", "d", "o">>
      [] member = "DIFICULDADE_CONTATO" ->
           <<"D", "i", "f", "i", "c", "u", "l", "d", "a", "d", "e", " ", "d", "e", " ", "c", "o", "n", "t", "a", "t", "o">>

\* The mappings dict of _parse_category, in insertion order.
CategoryMappings ==
    << [key |-> <<"a", "t", "r", "a", "s", "o", " ", "n", "a", " ", "e", "n", "t", "r", "e", "g", "a">>,
        value |-> "ATRASO_ENTREGA"],
       [key |-> <<"a", "t", "r", "a", "s", "o", " ", "e", "n", "t", "r", "e", "g", "a">>,
        value |-> "ATRASO_ENTREGA"],
       [key |-> <<"p", "r", "o", "d", "u", "t", "o", " ", "n", "ã", "o", " ", "e", "n", "t", "r", "e", "g", "u", "e">>,
        value |-> "PRODUTO_NAO_ENTREGUE"],
       [key |-> <<"p", "r", "o", "d", "u", "t", "o", " ", "n", "a", "o", " ", "e", "n", "t", "r", "e", "g", "u", "e">>,
        value |-> "PRODUTO_NAO_ENTREGUE"],
       [key |-> <<"n", "ã", "o", " ", "e", "n", "t", "r", "e", "g", "u", "e">>,
        value |-> "PRODUTO_NAO_ENTREGUE"],
       [key |-> <<"p", "r", "o", "d", "u", "t", "o", " ", "c", "o", "m", " ", "d", "e", "f", "e", "i", "t", "o">>,
        value |-> "PRODUTO_DEFEITO"],
       [key |-> <<"d", "e", "f", "e", "i", "t", "o">>,
        value |-> "PRODUTO_DEFEITO"],
       [key |-> <<"p", "r", "o", "d", "u", "t", "o", " ", "d", "i", "f", "e", "r", "e", "n", "t", "e", " ", "d", "o", " ", "a", "n", "u", "n", "c", "i", "a", "d", "o">>,
        value |-> "PRODUTO_DIFERENTE"],
       [key |-> <<"p", "r", "o", "d", "u", "t", "o", " ", "d", "i", "f", "e", "r", "e", "n", "t", "e">>,
        value |-> "PRODUTO_DIFERENTE"],
       [key |-> <<"c", "o", "b", "r", "a", "n", "ç", "a", " ", "i", "n", "d", "e", "v", "i", "d", "a">>,
        value |-> "COBRANCA_INDEVIDA"],
       [key |-> <<"c", "o", "b", "r", "a", "n", "c", "a", " ", "i", "n", "d", "e", "v", "i", "d", "a">>,
        value |-> "COBRANCA_INDEVIDA"],
       [key |-> <<"r", "e", "e", "m", "b", "o", "l", "s", "o", " ", "n", "ã", "o", " ", "p", "r", "o", "c", "e", "s", "s", "a", "d", "o">>,
        value |-> "REEMBOLSO_NAO_PROCESSADO"],
       [key |-> <<"r", "e", "e", "m", "b", "o", "l", "s", "o", " ", "n", "a", "o", " ", "p", "r", "o", "c", "e", "s", "s", "a", "d", "o">>,
        value |-> "REEMBOLSO_NAO_PROCESSADO"],
       [key |-> <<"r", "e", "e", "m", "b", "o", "l", "s", "o">>,
        value |-> "REEMBOLSO_NAO_PROCESSADO"],
       [key |-> <<"a", "t", "e", "n", "d", "i", "m", "e", "n", "t", "o", " ", "r", "u", "i", "m">>,
        value |-> "ATENDIMENTO_RUIM"],
       [key |-> <<"p", "r", "o", "b", "l", "e", "m", "a", " ", "c", "o", "m", " ", "v", "e", "n", "d", "e", "d", "o", "r", " ", "(", "m", "a", "r", "k", "e", "t", "p", "l", "a", "c", "e", ")">>,
        value |-> "PROBLEMA_VENDEDOR"],
       [key |-> <<"p", "r", "o", "b", "l", "e", "m", "a", " ", "c", "o", "m", " ", "v", "e", "n", "d", "e", "d", "o", "r">>,
        value |-> "PROBLEMA_VENDEDOR"],
       [key |-> <<"m", "a", "r", "k", "e", "t", "p", "l", "a", "c", "e">>,
        value |-> "PROBLEMA_VENDEDOR"],
       [key |-> <<"c", "a", "n", "c", "e", "l", "a", "m", "e", "n", "t", "o", " ", "n", "e", "g", "a", "d", "o">>,
        value |-> "CANCELAMENTO_NEGADO"],
       [key |-> <<"c", "a", "n", "c", "e", "l", "a", "m", "e", "n", "t", "o">>,
        value |-> "CANCELAMENTO_NEGADO"],
       [key |-> <<"d", "i", "f", "i", "c", "u", "l", "d", "a", "d", "e", " ", "d", "e", " ", "c", "o", "n", "t", "a", "t", "o">>,
        value |-> "DIFICULDADE_CONTATO"],
       [key |-> <<"d", "i", "f", "i", "c", "u", "l", "d", "a", "d", "e", " ", "c", "o", "n", "t", "a", "t", "o">>,
        value |-> "DIFICULDADE_CONTATO"] >>

SentimentMappings ==
    << [key |-> <<"n", "e", "u", "t", "r", "o">>,
        value |-> "neutro"],
       [key |-> <<"i", "n", "s", "a", "t", "i", "s", "f", "e", "i", "t", "o">>,
        value |-> "insatisfeito"],
       [key |-> <<"m", "u", "i", "t", "o", "_", "i", "n", "s", "a", "t", "i", "s", "f", "e", "i", "t", "o">>,
        value |-> "muito_insatisfeito"],
       [key |-> <<"m", "u", "i", "t", "o", " ", "i", "n", "s", "a", "t", "i", "s", "f", "e", "i", "t", "o">>,
        value |-> "muito_insatisfeito"] >>

UrgencyMappings ==
    << [key |-> <<"b", "a", "i", "x", "a">>, value |-> "baixa"],
       [key |-> <<"m", "e", "d", "i", "a">>, value |-> "media"],
       [key |-> <<"m", "é", "d", "i", "a">>, value |-> "media"],
       [key |-> <<"a", "l", "t", "a">>, value |-> "alta"],
       [key |-> <<"c", "r", "i", "t", "i", "c", "a">>, value |-> "critica"],
       [key |-> <<"c", "r", "í", "t", "i", "c", "a">>, value |-> "critica"] >>

URGENCY_KEYWORDS_critica ==
    << <<"p", "r", "o", "c", "o", "n">>,
       <<"p", "r", "o", "c", "e", "s", "s", "o">>,
       <<"j", "u", "s", "t", "i", "ç", "a">>,
       <<"a", "d", "v", "o", "g", "a", "d", "o">>,
       <<"j", "u", "i", "z", "a", "d", "o">>,
       <<"f", "r", "a", "u", "d", "e">>,
       <<"g", "o", "l", "p", "e">>,
       <<"r", "o", "u", "b", "o">>,
       <<"c", "l", "o", "n", "a", "d", "o">>,
       <<"c", "l", "o", "n", "a", "r", "a", "m">>,
       <<"s", "a", "ú", "d", "e">>,
       <<"d", "o", "e", "n", "ç", "a">>,
       <<"a", "l", "é", "r", "g", "i", "c", "o">>,
       <<"v", "e", "n", "c", "i", "d", "o">>,
       <<"c", "o", "n", "t", "a", "m", "i", "n", "a", "d", "o">>,
       <<"u", "r", "g", "e", "n", "t", "e">>,
       <<"u", "r", "g", "ê", "n", "c", "i", "a">>,
       <<"i", "m", "e", "d", "i", "a", "t", "o">>,
       <<"h", "o", "j", "e">> >>

URGENCY_KEYWORDS_alta ==
    << <<"p", "r", "a", "z", "o">>,
       <<"e", "v", "e", "n", "t", "o">>,
       <<"a", "n", "i", "v", "e", "r", "s", "á", "r", "i", "o">>,
       <<"c", "a", "s", "a", "m", "e", "n", "t", "o">>,
       <<"v", "i", "a", "g", "e", "m">>,
       <<"p", "r", "e", "s", "e", "n", "t", "e">>,
       <<"a", "m", "a", "n", "h", "ã">>,
       <<"s", "e", "m", "a", "n", "a">>,
       <<"d", "i", "a", "s">>,
       <<"p", "r", "e", "c", "i", "s", "a", "n", "d", "o">>,
       <<"n", "e", "c", "e", "s", "s", "i", "t", "o">>,
       <<"d", "e", "p", "e", "n", "d", "o">> >>

\* ------------------------------------------------------------------------
\* Enumerations (models/schemas.py)
\* ------------------------------------------------------------------------
WorkflowStatus ==
    {"NEW", "ANONYMIZED", "ANALYZED", "QA_APPROVED", "QA_REJECTED", "ROUTED",
     "TICKET_CREATED", "NOTIFIED", "COMPLETED",
     "FAILED_LLM", "FAILED_ROUTING", "FAILED_JIRA", "FAILED_EMAIL"}

\* The members whose value starts with "FAILED"
FailedStatuses == {"FAILED_LLM", "FAILED_ROUTING", "FAILED_JIRA", "FAILED_EMAIL"}

Sentiment == {"neutro", "insatisfeito", "muito_insatisfeito"}

Urgency == {"baixa", "media", "alta", "critica"}

Priority == {"low", "medium", "high", "critical"}

\* ------------------------------------------------------------------------
\* PromptTemplates
\* ------------------------------------------------------------------------
\* CLASSIFICATION_PROMPT_TEMPLATE.format(...): the four values embedded in
\* the fixed template text.
GetAnalysisPrompt(title, description, source, created_at) ==
    [title |-> title, description |-> description,
     source |-> source, created_at |-> created_at]

AnyKeywordIn(keywords, text_lower) ==
    \E i \in 1..Len(keywords) : Contains(keywords[i], text_lower)

\* check_urgency_keywords(text): Some("critica"), Some("alta") or None
CheckUrgencyKeywords(text) ==
    LET text_lower == Lower(text)
    IN  IF AnyKeywordIn(URGENCY_KEYWORDS_critica, text_lower) THEN Some("critica")
        ELSE IF AnyKeywordIn(URGENCY_KEYWORDS_alta, text_lower) THEN Some("alta")
        ELSE None

\* ------------------------------------------------------------------------
\* AzureOpenAIClient
\* ------------------------------------------------------------------------
\* The literals of the client (azure_openai.py) and the text of a
\* json.JSONDecodeError.  The backtick character is written "<backtick>".
LLMText ==
    [invalid_json |-> <<"I", "n", "v", "a", "l", "i", "d", " ", "J", "S", "O", "N", " ", "r", "e", "s", "p", "o", "n", "s", "e", " ", "f", "r", "o", "m", " ", "L", "L", "M", ":", " ">>,
     expecting_value |-> <<"E", "x", "p", "e", "c", "t", "i", "n", "g", " ", "v", "a", "l", "u", "e">>,
     fence_json |-> <<"<backtick>", "<backtick>", "<backtick>", "j", "s", "o", "n">>,
     fence |-> <<"<backtick>", "<backtick>", "<backtick>">>]

\* A JSON value that is no object (a list): it has no get()
NonDict == [list |-> <<>>]

\* json.loads(text).  The members of a JSON object are kept as one element of
\* the text, "<members>", and members is the dict they decode to.
JsonLoads(text, members) ==
    IF text = <<"{", "<members>", "}">> THEN [kind |-> "ok", value |-> members]
    ELSE IF text = <<"{", "}">> THEN [kind |-> "ok", value |-> [k \in {} |-> <<>>]]
    ELSE IF text = <<"[", "]">> THEN [kind |-> "ok", value |-> NonDict]
    ELSE [kind |-> "JSONDecodeError", message |-> LLMText.expecting_value]

\* _parse_json_response: the markdown code fences are removed from the
\* stripped content
StripFences(content) ==
    LET opened == IF StartsWith(content, LLMText.fence_json)
                  THEN SubSeq(content, 8, Len(content))
                  ELSE IF StartsWith(content, LLMText.fence)
                  THEN SubSeq(content, 4, Len(content))
                  ELSE content
    IN  Strip(IF Len(opened) >= 3
                 /\ SubSeq(opened, Len(opened) - 2, Len(opened)) = LLMText.fence
              THEN SubSeq(opened, 1, Len(opened) - 3)
              ELSE opened)

\* _parse_json_response: content[start_idx:end_idx] from the first "{" to
\* the last "}" is loaded when there is one, the whole content otherwise
LoadObject(content, members) ==
    LET opens     == {i \in 1..Len(content) : content[i] = "{"}
        closes    == {i \in 1..Len(content) : content[i] = "}"}
        start_idx == IF opens = {} THEN 0 - 1
                     ELSE (CHOOSE i \in opens : \A j \in opens : i <= j) - 1
        end_idx   == IF closes = {} THEN 0
                     ELSE CHOOSE i \in closes : \A j \in closes : j <= i
    IN  IF start_idx # 0 - 1 /\ end_idx > start_idx
        THEN JsonLoads(SubSeq(content, start_idx + 1, end_idx), members)
        ELSE JsonLoads(content, members)

\* _parse_json_response(content)
ParseJsonResponse(content, members) ==
    LoadObject(StripFences(Strip(content)), members)

\* analyze(system_prompt, user_prompt, ...); invoke is the outcome of
\* llm.ainvoke: [kind |-> "content", content, members] or
\* [kind |-> "raises", message].  The result is [kind |-> "ok", response]
\* or [kind |-> "LLMError", message].
Analyzed(invoke, parsed) ==
    IF invoke.kind = "raises"
    THEN [kind |-> "LLMError", message |-> S_LLMCallFailed \o invoke.message]
    ELSE IF parsed.kind = "JSONDecodeError"
    THEN [kind |-> "LLMError", message |-> LLMText.invalid_json \o parsed.message]
    ELSE [kind |-> "ok", response |-> parsed.value]

Analyze(invoke) ==
    Analyzed(invoke,
             IF invoke.kind = "raises" THEN invoke
             ELSE ParseJsonResponse(invoke.content, invoke.members))

\* ------------------------------------------------------------------------
\* AnalystAgent: parsing of the LLM response
\* ------------------------------------------------------------------------
\* The first key of the mappings, in insertion order, that contains
\* normalized or is contained in it; 0 when there is none.
PartialCategoryIndex(normalized) ==
    IF \E i \in 1..Len(CategoryMappings) :
           Contains(CategoryMappings[i].key, normalized)
           \/ Contains(normalized, CategoryMappings[i].key)
    THEN CHOOSE i \in 1..Len(CategoryMappings) :
             /\ Contains(CategoryMappings[i].key, normalized)
                \/ Contains(normalized, CategoryMappings[i].key)
             /\ \A j \in 1..(i - 1) :
                    ~ (Contains(CategoryMappings[j].key, normalized)
                       \/ Contains(normalized, CategoryMappings[j].key))
    ELSE 0

\* _parse_category(category_str), category_str a str
ParseCategory(category_str) ==
    LET normalized == Strip(Lower(category_str))
        direct     == KeyIndex(CategoryMappings, normalized)
        partial    == PartialCategoryIndex(normalized)
    IN  IF direct # 0 THEN CategoryMappings[direct].value
        ELSE IF partial # 0 THEN CategoryMappings[partial].value
        ELSE "ATENDIMENTO_RUIM"

\* _parse_sentiment(sentiment_str), sentiment_str a str
ParseSentiment(sentiment_str) ==
    LET normalized == Strip(Lower(sentiment_str))
        i          == KeyIndex(SentimentMappings, normalized)
    IN  IF i # 0 THEN SentimentMappings[i].value ELSE "insatisfeito"

\* _parse_urgency(urgency_str), urgency_str a str
ParseUrgency(urgency_str) ==
    LET normalized == Strip(Lower(urgency_str))
        i          == KeyIndex(UrgencyMappings, normalized)
    IN  IF i # 0 THEN UrgencyMappings[i].value ELSE "media"

\* _urgency_is_higher(new, current)
UrgencyOrder(u) ==
    CASE u = "baixa" -> 0 [] u = "media" -> 1 [] u = "alta" -> 2 [] u = "critica" -> 3
      [] OTHER -> 0

UrgencyIsHigher(new, current) == UrgencyOrder(new) > UrgencyOrder(current)

\* key_issues of a response: a list of str, one str, or a value of another
\* type.
IssuesList(items) == [kind |-> "list", items |-> items]

IssuesStr(s) == [kind |-> "str", value |-> s]

IssuesOther == [kind |-> "other"]

S_AtendimentoRuim == CategoryValue("ATENDIMENTO_RUIM")

DefaultAnalysis(complaint_id) ==
    [complaint_id |-> complaint_id,
     category     |-> "ATENDIMENTO_RUIM",
     sentiment    |-> "insatisfeito",
     urgency      |-> "media",
     summary      |-> AnalystText.erro_ao_processar,
     key_issues   |-> << AnalystText.analise_falhou >>,
     analyzed_at  |-> "utcnow"]

\* _parse_llm_response(complaint_id, response).  An exception in the try
\* block (a response that is no dict: it has no get(); a field that is no
\* str: .lower() or the model validation fails) gives the default analysis.
ParseLLMResponse(complaint_id, response) ==
    LET category_str  == DictGet(response, "category", S_AtendimentoRuim)
        sentiment_str == DictGet(response, "sentiment", AnalystText.insatisfeito)
        urgency_str   == DictGet(response, "urgency", AnalystText.media)
        summary       == DictGet(response, "summary", AnalystText.resumo_nao_disponivel)
        key_issues    == DictGet(response, "key_issues", IssuesList(<<>>))
        issues_list   == IF key_issues.kind = "str" THEN << key_issues.value >>
                         ELSE key_issues.items
    IN  IF /\ response # NonDict
           /\ IsStr(category_str) /\ IsStr(sentiment_str) /\ IsStr(urgency_str)
           /\ IsStr(summary)
           /\ key_issues.kind # "other"
        THEN [complaint_id |-> complaint_id,
              category     |-> ParseCategory(category_str),
              sentiment    |-> ParseSentiment(sentiment_str),
              urgency      |-> ParseUrgency(urgency_str),
              summary      |-> summary,
              key_issues   |-> SubSeq(issues_list, 1, IF Len(issues_list) < 4 THEN Len(issues_list) ELSE 4),
              analyzed_at  |-> "utcnow"]
        ELSE DefaultAnalysis(complaint_id)

\* ------------------------------------------------------------------------
\* Exceptions and results of operations that may raise
\* ------------------------------------------------------------------------
\* exc is "none", "AgentError" (message is e.message) or "Exception"
\* (message is str(e)); writes are the values the operation assigned to
\* state.workflow_status, in order.
Returned(state, calls) ==
    [exc |-> "none", message |-> <<>>, state |-> state, calls |-> calls, writes |-> <<>>]

Raised(exc, message, state, calls) ==
    [exc |-> exc, message |-> message, state |-> state, calls |-> calls, writes |-> <<>>]

\* An operation that ended as r after it wrote the statuses written to
\* state.workflow_status, in this order
Wrote(written, r) == [r EXCEPT !.writes = written]

\* "[name] "
Bracket(name) == <<"[">> \o name \o <<"]", " ">>

\* str(e) of AgentError(message, agent_name)
AgentErrorStr(agent_name, message) == Bracket(agent_name) \o message

\* state.complaint_raw.id or state.complaint_raw.external_id
ComplaintId(complaint) ==
    IF complaint.id # None THEN complaint.id[1] ELSE complaint.external_id

\* A call of a collaborator; ok tells whether it returned
Call(collab, arg, ok) == [collab |-> collab, arg |-> arg, ok |-> ok]

\* ------------------------------------------------------------------------
\* RouterAgent
\* ------------------------------------------------------------------------
\* dict[key] = value on a dict kept as the list of its items in insertion
\* order.
DictSet(items, key, value) ==
    LET i == KeyIndex(items, key)
    IN  IF i # 0
        THEN [items EXCEPT ![i] = [key |-> key, value |-> value]]
        ELSE Append(items, [key |-> key, value |-> value])

\* The loops of initialize over the teams t.. and the categories c.. of
\* team t: category_to_team[category.lower()] = team
RECURSIVE BuildCategoryToTeam(_, _, _, _)
BuildCategoryToTeam(teams, t, c, category_to_team) ==
    IF t > Len(teams) THEN category_to_team
    ELSE IF c > Len(teams[t].categories)
         THEN BuildCategoryToTeam(teams, t + 1, 1, category_to_team)
         ELSE BuildCategoryToTeam(teams, t, c + 1,
                  DictSet(category_to_team, Lower(teams[t].categories[c]), teams[t]))

\* A partial search that only takes a key the category is part of
PartialTeamIndexKeyContains(category_to_team, category) ==
    IF \E i \in 1..Len(category_to_team) : Contains(category, category_to_team[i].key)
    THEN CHOOSE i \in 1..Len(category_to_team) :
             /\ Contains(category, category_to_team[i].key)
             /\ \A j \in 1..(i - 1) : ~ Contains(category, category_to_team[j].key)
    ELSE 0

\* The first item of category_to_team, in insertion order, whose key
\* contains category or is contained in it; 0 when there is none.
PartialTeamIndex(category_to_team, category) ==
    IF \E i \in 1..Len(category_to_team) :
           Contains(category, category_to_team[i].key)
           \/ Contains(category_to_team[i].key, category)
    THEN CHOOSE i \in 1..Len(category_to_team) :
             /\ Contains(category, category_to_team[i].key)
                \/ Contains(category_to_team[i].key, category)
             /\ \A j \in 1..(i - 1) :
                    ~ (Contains(category, category_to_team[j].key)
                       \/ Contains(category_to_team[j].key, category))
    ELSE 0

\* The first team whose lower-cased name contains "atendimento" or "n2";
\* 0 when there is none.
FallbackTeamIndex(teams) ==
    IF \E i \in 1..Len(teams) :
           Contains(RouterText.atendimento, Lower(teams[i].name)) \/ Contains(RouterText.n2, Lower(teams[i].name))
    THEN CHOOSE i \in 1..Len(teams) :
             /\ Contains(RouterText.atendimento, Lower(teams[i].name))
                \/ Contains(RouterText.n2, Lower(teams[i].name))
             /\ \A j \in 1..(i - 1) :
                    ~ (Contains(RouterText.atendimento, Lower(teams[j].name))
                       \/ Contains(RouterText.n2, Lower(teams[j].name)))
    ELSE 0

\* A mapping that knows the declared categories only
RouteWithMappingExactOnly(state, router) ==
    LET category == Lower(CategoryValue(state.complaint_analyzed[1].category))
        exact    == KeyIndex(router.category_to_team, category)
    IN  IF exact # 0 THEN Some(router.category_to_team[exact].value) ELSE None

\* _route_with_mapping(state): Some(team) or None
RouteWithMapping(state, router) ==
    LET category == Lower(CategoryValue(state.complaint_analyzed[1].category))
        exact    == KeyIndex(router.category_to_team, category)
        partial  == PartialTeamIndex(router.category_to_team, category)
        fallback == FallbackTeamIndex(router.teams)
    IN  IF exact # 0 THEN Some(router.category_to_team[exact].value)
        ELSE IF partial # 0 THEN Some(router.category_to_team[partial].value)
        ELSE IF fallback # 0 THEN Some(router.teams[fallback])
        ELSE IF router.teams # <<>> THEN Some(router.teams[1])
        ELSE None

\* get_routing_context(category, urgency, summary)
GetRoutingContext(category, urgency, summary) ==
    [category |-> category, urgency |-> urgency, summary |-> summary]

\* A RAG lookup that gives up when the search finds nothing or raises
RouteWithRagNoFallback(state, router, search) ==
    [team |-> IF search.kind = "teams" /\ search.teams # <<>>
              THEN Some(search.teams[1]) ELSE None,
     calls |-> << Call("search", [category |-> CategoryValue(state.complaint_analyzed[1].category)],
                       search.kind = "teams") >>]

\* _route_with_rag(state); search is the outcome of search_team:
\* [kind |-> "teams", teams |-> list] or [kind |-> "raises"].
\* [team |-> Some(team) or None, calls |-> the search call]
RouteWithRag(state, router, search) ==
    LET analysis == state.complaint_analyzed[1]
        query    == GetRoutingContext(CategoryValue(analysis.category),
                                      analysis.urgency, analysis.summary)
        call     == Call("search", [query |-> query,
                                    category |-> CategoryValue(analysis.category),
                                    top_k |-> 1],
                         search.kind = "teams")
    IN  IF search.kind = "teams" /\ search.teams # <<>>
        THEN [team |-> Some(search.teams[1]), calls |-> << call >>]
        ELSE [team |-> RouteWithMapping(state, router), calls |-> << call >>]

\* A priority that follows the urgency alone
DeterminePriorityByUrgency(urgency, sentiment) ==
    CASE urgency = "critica" -> "critical" [] urgency = "alta" -> "high"
      [] urgency = "media" -> "medium" [] urgency = "baixa" -> "low"

\* _determine_priority(urgency, sentiment)
DeterminePriority(urgency, sentiment) ==
    IF urgency = "critica" THEN "critical"
    ELSE IF urgency = "alta"
         THEN IF sentiment = "muito_insatisfeito" THEN "critical" ELSE "high"
    ELSE IF urgency = "media"
         THEN IF sentiment = "muito_insatisfeito" THEN "high" ELSE "medium"
    ELSE IF sentiment = "muito_insatisfeito" THEN "medium" ELSE "low"

DefaultSlaHours == 48

\* _get_sla_hours(team, urgency)
GetSlaHours(team, urgency) ==
    LET sla_key == IF urgency \in Urgency THEN urgency ELSE "media"
    IN  DictGet(team.sla_hours, sla_key, DefaultSlaHours)

\* _generate_justification(analysis, team): the values the sentence cites
GenerateJustification(analysis, team) ==
    [category |-> CategoryValue(analysis.category),
     urgency  |-> analysis.urgency,
     team     |-> team.name,
     areas    |-> SubSeq(team.responsibilities, 1,
                         IF Len(team.responsibilities) < 3
                         THEN Len(team.responsibilities) ELSE 3)]

\* RouterAgent.validate_input(state)
RouterValidateInput(state) == state.complaint_analyzed # None

\* The RoutingDecision process builds for the team found
RoutingDecision(state, analysis, team) ==
    [complaint_id      |-> ComplaintId(state.complaint_raw),
     team              |-> team.name,
     team_id           |-> team.id,
     responsible_email |-> team.email,
     priority          |-> DeterminePriority(analysis.urgency, analysis.sentiment),
     justification     |-> GenerateJustification(analysis, team),
     sla_hours         |-> GetSlaHours(team, analysis.urgency),
     routed_at         |-> "utcnow"]

\* The team lookup of process: RAG when a search client is in use, the
\* category mapping otherwise.  [team |-> Some(team) or None, calls]
FindTeam(state, router, search) ==
    IF router.use_azure_search /\ router.search_client
    THEN RouteWithRag(state, router, search)
    ELSE [team |-> RouteWithMapping(state, router), calls |-> <<>>]

\* A process that returns the state as it is when no team is found
RouteToWithoutTeam(state, analysis, found) ==
    IF found.team = None
    THEN Returned(state, found.calls)
    ELSE Returned([state EXCEPT !.routing_decision =
                                    Some(RoutingDecision(state, analysis, found.team[1]))],
                  found.calls)

\* process after the team lookup: no team raises AgentError
RouteTo(state, analysis, found) ==
    IF found.team = None
    THEN Raised("AgentError", RouterText.no_team_found \o CategoryValue(analysis.category),
                state, found.calls)
    ELSE Returned([state EXCEPT !.routing_decision =
                                    Some(RoutingDecision(state, analysis, found.team[1]))],
                  found.calls)

\* RouterAgent.process(state); search is the outcome of the search
\* collaborator, used in RAG mode only.
RouterProcess(state, router, search) ==
    RouteTo(state, state.complaint_analyzed[1], FindTeam(state, router, search))

\* RouterAgent.initialize(); load is the outcome of loader.load_teams()
\* ([kind |-> "teams", teams |-> list] or [kind |-> "raises", message]),
\* search_ok tells whether get_search_client() succeeds.
\* [raised, message, agent]
RouterInitialize(router, load, search_ok) ==
    IF load.kind = "raises"
    THEN [raised |-> TRUE, message |-> load.message,
          agent |-> [router EXCEPT !.init_runs = @ + 1]]
    ELSE [raised |-> FALSE, message |-> <<>>,
          agent |-> [router EXCEPT
                        !.init_runs = @ + 1,
                        !.teams = load.teams,
                        !.category_to_team =
                            BuildCategoryToTeam(load.teams, 1, 1, router.category_to_team),
                        !.search_client = IF router.use_azure_search /\ search_ok
                                          THEN TRUE ELSE @,
                        !.use_azure_search = router.use_azure_search /\ search_ok]]

\* ------------------------------------------------------------------------
\* PrivacyAgent.process / process_state
\* ------------------------------------------------------------------------
\* A process that leaves consumer_contact as it is
PrivacyProcessKeepsContact(complaint) ==
    IF ~ IsStr(complaint.description)
       \/ (complaint.title # <<>> /\ ~ IsStr(complaint.title))
    THEN [raised |-> TRUE, message |-> S_TypeError, value |-> complaint]
    ELSE [raised |-> FALSE, message |-> <<>>,
          value |-> [complaint EXCEPT
                        !.description = MaskPii(complaint.description).text,
                        !.title = IF complaint.title # <<>>
                                  THEN MaskPii(complaint.title).text ELSE @]]

\* process(complaint): the deep copy with description, title and
\* consumer_contact masked; pattern.subn raises TypeError on a truthy value
\* that is no str.
PrivacyProcess(complaint) ==
    LET mask_title   == complaint.title # <<>>
        mask_contact == complaint.consumer_contact # None
                        /\ complaint.consumer_contact[1] # <<>>
    IN  IF ~ IsStr(complaint.description)
           \/ (mask_title /\ ~ IsStr(complaint.title))
           \/ (mask_contact /\ ~ IsStr(complaint.consumer_contact[1]))
        THEN [raised |-> TRUE, message |-> S_TypeError, value |-> complaint]
        ELSE [raised |-> FALSE, message |-> <<>>,
              value |-> [complaint EXCEPT
                            !.description = MaskPii(complaint.description).text,
                            !.title = IF mask_title THEN MaskPii(complaint.title).text ELSE @,
                            !.consumer_contact =
                                IF mask_contact
                                THEN Some(MaskPii(complaint.consumer_contact[1]).text)
                                ELSE @]]

\* A process_state whose process masks the record itself instead of a deep
\* copy of it
WithAnonymizedInPlace(state, anonymized) ==
    IF anonymized.raised
    THEN Raised("Exception", anonymized.message, state, <<>>)
    ELSE Wrote(<< "ANONYMIZED" >>,
               Returned([state EXCEPT !.complaint_raw = anonymized.value,
                                      !.complaint_anonymized = Some(anonymized.value),
                                      !.workflow_status = "ANONYMIZED"], <<>>))

\* process_state(state) after process(state.complaint_raw)
WithAnonymized(state, anonymized) ==
    IF anonymized.raised
    THEN Raised("Exception", anonymized.message, state, <<>>)
    ELSE Wrote(<< "ANONYMIZED" >>,
               Returned([state EXCEPT !.complaint_anonymized = Some(anonymized.value),
                                      !.workflow_status = "ANONYMIZED"], <<>>))

\* process_state(state)
PrivacyProcessState(state) == WithAnonymized(state, PrivacyProcess(state.complaint_raw))

\* ------------------------------------------------------------------------
\* AnalystAgent
\* ------------------------------------------------------------------------
\* An analyst that accepts every state
AnalystValidateInputAlways(state) == TRUE

\* AnalystAgent.validate_input(state)
AnalystValidateInput(state) ==
    /\ state.complaint_raw.title # <<>>
    /\ state.complaint_raw.description # <<>>

\* An analyst that reads the raw record
AnalysisComplaintRaw(state) == state.complaint_raw

\* state.complaint_anonymized or complaint
AnalysisComplaint(state) ==
    IF state.complaint_anonymized # None
    THEN state.complaint_anonymized[1]
    ELSE state.complaint_raw

\* An override that takes the keyword urgency whenever there is one
OverrideUrgencyAlways(keyword_urgency, urgency) ==
    IF keyword_urgency # None THEN keyword_urgency[1] ELSE urgency

\* The urgency after the keyword override
OverrideUrgency(keyword_urgency, urgency) ==
    IF keyword_urgency # None /\ UrgencyIsHigher(keyword_urgency[1], urgency)
    THEN keyword_urgency[1]
    ELSE urgency

\* AnalystAgent.process(state); llm is the outcome of llm_client.analyze:
\* [kind |-> "ok", response |-> dict] or [kind |-> "LLMError", message].
AnalystProcess(state, analyst, llm) ==
    LET complaint          == state.complaint_raw
        complaint_id       == ComplaintId(complaint)
        analysis_complaint == AnalysisComplaint(state)
        user_prompt        == GetAnalysisPrompt(analysis_complaint.title,
                                                analysis_complaint.description,
                                                complaint.source, complaint.created_at)
        call               == Call("llm", user_prompt, llm.kind = "ok")
    IN  IF ~ analyst.llm_client
        THEN Raised("AgentError", AnalystText.llm_client_not_initialized, state, <<>>)
        ELSE IF complaint.created_at # "datetime"
        THEN \* complaint.created_at.isoformat() raises AttributeError
             Raised("Exception", AnalystText.attribute_error, state, <<>>)
        ELSE IF llm.kind = "LLMError"
        THEN Raised("AgentError", AnalystText.llm_analysis_failed \o llm.message, state, << call >>)
        ELSE LET parsed   == ParseLLMResponse(complaint_id, llm.response)
                 keyword  == CheckUrgencyKeywords(complaint.title \o <<" ">>
                                                      \o complaint.description)
                 analysis == [parsed EXCEPT !.urgency = OverrideUrgency(keyword, @)]
             IN  Returned([state EXCEPT !.complaint_analyzed = Some(analysis)], << call >>)

\* ------------------------------------------------------------------------
\* CommunicatorAgent
\* ------------------------------------------------------------------------
\* A communicator that wants a ticket before it creates one
CommunicatorValidateInputNeedsTicket(state) ==
    /\ state.routing_decision # None
    /\ state.ticket_info # None

\* CommunicatorAgent.validate_input(state)
CommunicatorValidateInput(state) ==
    /\ state.routing_decision # None
    /\ state.complaint_analyzed # None

\* The status the except block of process sets for the exception text
CommunicationFailureStatus(text) ==
    IF Contains(CommunicatorText.ticket, Lower(text)) \/ Contains(CommunicatorText.jira, Lower(text))
    THEN "FAILED_JIRA"
    ELSE "FAILED_EMAIL"

\* An except block that stamps completed_at on the failed state
CommunicationFailedStamped(state, text, calls, written) ==
    Wrote(written \o << CommunicationFailureStatus(text) >>,
          Raised("AgentError", CommunicatorText.communication_failed \o text,
                 [state EXCEPT !.workflow_status = CommunicationFailureStatus(text),
                               !.completed_at = Some("utcnow")], calls))

\* The except block of process: the failure status is written to the state
\* and the exception is wrapped; written are the statuses the try block
\* wrote before.
CommunicationFailed(state, text, calls, written) ==
    Wrote(written \o << CommunicationFailureStatus(text) >>,
          Raised("AgentError", CommunicatorText.communication_failed \o text,
                 [state EXCEPT !.workflow_status = CommunicationFailureStatus(text)], calls))

\* CommunicatorAgent.process(state); out holds the outcomes of create_ticket,
\* send_team_notification and send_customer_notification, each
\* [kind |-> "ok"] or [kind |-> "raises", message]; counter is
\* MockJiraClient._ticket_counter.
CommunicatorProcess(state, communicator, out, counter) ==
    LET complaint    == state.complaint_raw
        complaint_id == ComplaintId(complaint)
        ticket       == [complaint_id |-> complaint_id, jira_id |-> counter + 1,
                         status |-> "Open"]
        ticket_call  == Call("create_ticket", complaint_id, out.ticket.kind = "ok")
        with_ticket  == [state EXCEPT !.ticket_info = Some(ticket),
                                      !.workflow_status = "TICKET_CREATED"]
        team_call    == Call("send_team_notification", complaint_id, out.team.kind = "ok")
        notification == [complaint_id |-> complaint_id, ticket_id |-> ticket.jira_id,
                         email_to |-> state.routing_decision[1].responsible_email,
                         status |-> "sent"]
        has_contact  == complaint.consumer_contact # None
                        /\ complaint.consumer_contact[1] # <<>>
        customer_call == Call("send_customer_notification", complaint_id,
                              ~ (has_contact /\ out.customer.kind = "raises"))
        all_calls    == << ticket_call, team_call, customer_call >>
    IN  IF ~ communicator.jira_client
        THEN CommunicationFailed(state,
                 AgentErrorStr(CommunicatorText.name, CommunicatorText.jira_client_not_initialized),
                 <<>>, <<>>)
        ELSE IF out.ticket.kind = "raises"
        THEN CommunicationFailed(state, out.ticket.message, << ticket_call >>, <<>>)
        ELSE IF ~ communicator.email_client
        THEN CommunicationFailed(with_ticket,
                 AgentErrorStr(CommunicatorText.name, CommunicatorText.email_client_not_initialized),
                 << ticket_call >>, << "TICKET_CREATED" >>)
        ELSE IF out.team.kind = "raises"
        THEN CommunicationFailed(with_ticket, out.team.message, << ticket_call, team_call >>,
                                 << "TICKET_CREATED" >>)
        ELSE IF has_contact /\ out.customer.kind = "raises"
        THEN CommunicationFailed(with_ticket, out.customer.message, all_calls,
                                 << "TICKET_CREATED" >>)
        ELSE Wrote(<< "TICKET_CREATED", "NOTIFIED", "COMPLETED" >>,
                   Returned([with_ticket EXCEPT !.notification_info = Some(notification),
                                                !.workflow_status = "COMPLETED",
                                                !.completed_at = Some("utcnow")],
                            all_calls))

\* ------------------------------------------------------------------------
\* StatefulAgent
\* ------------------------------------------------------------------------
StageNames == {"analyst", "router", "communicator"}

\* self.name
AgentName(a) ==
    CASE a = "analyst" -> AnalystText.name
      [] a = "router" -> RouterText.name
      [] a = "communicator" -> CommunicatorText.name

\* A communicator whose success status is NOTIFIED
SuccessStatusNotified(a) ==
    CASE a = "analyst" -> "ANALYZED"
      [] a = "router" -> "ROUTED"
      [] a = "communicator" -> "NOTIFIED"

\* self.success_status
SuccessStatus(a) ==
    CASE a = "analyst" -> "ANALYZED"
      [] a = "router" -> "ROUTED"
      [] a = "communicator" -> "COMPLETED"

\* self.failure_status
FailureStatus(a) ==
    CASE a = "analyst" -> "FAILED_LLM"
      [] a = "router" -> "FAILED_ROUTING"
      [] a = "communicator" -> "FAILED_JIRA"

\* initialize() of stage a; [raised, message, agent]
Initialize(a, agent, out) ==
    CASE a = "analyst" ->
           [raised |-> FALSE, message |-> <<>>,
            agent |-> [agent EXCEPT !.init_runs = @ + 1, !.llm_client = TRUE]]
      [] a = "router" -> RouterInitialize(agent, out.load, out.search_ok)
      [] a = "communicator" ->
           [raised |-> FALSE, message |-> <<>>,
            agent |-> [agent EXCEPT !.init_runs = @ + 1,
                                    !.jira_client = TRUE, !.email_client = TRUE]]

\* validate_input(state) of stage a
ValidateInput(a, state) ==
    CASE a = "analyst" -> AnalystValidateInput(state)
      [] a = "router" -> RouterValidateInput(state)
      [] a = "communicator" -> CommunicatorValidateInput(state)

\* process(state) of stage a
Process(a, state, agent, out, counter) ==
    CASE a = "analyst" -> AnalystProcess(state, agent, Analyze(out.llm))
      [] a = "router" -> RouterProcess(state, agent, out.search)
      [] a = "communicator" -> CommunicatorProcess(state, agent, out, counter)

\* Handlers that set the failure status and record no entry
FailWithStatusOnly(a, state, text) ==
    [state EXCEPT !.workflow_status = FailureStatus(a)]

\* Handlers that leave the new entry as the only one
FailWithOnlyLatest(a, state, text) ==
    [state EXCEPT !.errors = << Bracket(AgentName(a)) \o text >>,
                  !.workflow_status = FailureStatus(a)]

\* The handlers of execute: one entry appended to errors and the failure
\* status of the stage.
FailWith(a, state, text) ==
    [state EXCEPT !.errors = Append(@, Bracket(AgentName(a)) \o text),
                  !.workflow_status = FailureStatus(a)]

\* Whether execute runs initialize()
NeedsInitialize(agent) == ~ agent.initialized

\* An execute without its second except clause
HandledAgentErrorOnly(exc) == exc = "AgentError"

\* The except clauses of execute: except AgentError, except Exception
Handled(exc) == exc \in {"AgentError", "Exception"}

\* The text execute appends to errors for a handled exception
ErrorText(exc, message) ==
    IF exc = "AgentError" THEN message ELSE BaseText.unexpected \o message

\* if not self._initialized: await self.initialize(); self._initialized = True
\* [raised, message, agent]
MarkInitialized(init) ==
    IF init.raised THEN init ELSE [init EXCEPT !.agent.initialized = TRUE]

EnsureInitialized(a, agent, out) ==
    IF NeedsInitialize(agent)
    THEN MarkInitialized(Initialize(a, agent, out))
    ELSE [raised |-> FALSE, message |-> <<>>, agent |-> agent]

\* The try block of execute after initialisation: validate_input, then
\* process.  exc is "invalid" when validate_input returned false.
Attempt(a, state, out, counter, init) ==
    IF init.raised
    THEN Raised("Exception", init.message, state, <<>>)
    ELSE IF ~ ValidateInput(a, state)
    THEN Raised("invalid", <<>>, state, <<>>)
    ELSE Process(a, state, init.agent, out, counter)

\* How execute ends for the result of its try block:
\* [raised, message, exc, state, agent, calls, writes]; raised tells whether an
\* exception leaves execute, message is its str(e), exc is how the try block
\* ended.
Conclude(a, agent, result) ==
    IF result.exc = "invalid"
    THEN [raised |-> FALSE, message |-> <<>>, exc |-> result.exc,
          state |-> FailWith(a, result.state, BaseText.invalid_input_state),
          agent |-> agent, calls |-> result.calls,
          writes |-> Append(result.writes, FailureStatus(a))]
    ELSE IF result.exc = "none"
    THEN [raised |-> FALSE, message |-> <<>>, exc |-> result.exc,
          state |-> [result.state EXCEPT !.workflow_status = SuccessStatus(a)],
          agent |-> agent, calls |-> result.calls,
          writes |-> Append(result.writes, SuccessStatus(a))]
    ELSE IF Handled(result.exc)
    THEN [raised |-> FALSE, message |-> <<>>, exc |-> result.exc,
          state |-> FailWith(a, result.state, ErrorText(result.exc, result.message)),
          agent |-> agent, calls |-> result.calls,
          writes |-> Append(result.writes, FailureStatus(a))]
    ELSE [raised |-> TRUE, message |-> result.message, exc |-> result.exc,
          state |-> result.state,
          agent |-> agent, calls |-> result.calls, writes |-> result.writes]

ExecuteInitialized(a, state, out, counter, init) ==
    Conclude(a, init.agent, Attempt(a, state, out, counter, init))

\* StatefulAgent.execute(state) of stage a
Execute(a, state, agent, out, counter) ==
    ExecuteInitialized(a, state, out, counter, EnsureInitialized(a, agent, out))

\* ------------------------------------------------------------------------
\* Bounds and sample inputs
\* ------------------------------------------------------------------------
\* The longest list of complaints given to process_batch
MaxBatch == 2

\* The texts of the sample complaints, LLM responses, teams and exception
\* messages
Sample ==
    [Cpf |-> <<"C", "P", "F", " ", "1", "2", "3", ".", "4", "5", "6", ".", "7", "8",
         "9", "-", "0", "0">>,
     Procon |-> <<"V", "o", "u", " ", "a", "o", " ", "P", "r", "o", "c", "o", "n", " ",
         "a", "@", "b", ".", "c", "o">>,
     Email |-> <<"a", "@", "b", ".", "c", "o">>,
     Atraso |-> <<"A", "t", "r", "a", "s", "o">>,
     NadaChegou |-> <<"N", "a", "d", "a", " ", "c", "h", "e", "g", "o", "u">>,
     ProdutoNaoEntregue |-> <<"P", "r", "o", "d", "u", "t", "o", " ", "n", "ã", "o",
         " ", "e", "n", "t", "r", "e", "g", "u", "e">>,
     Defeito |-> <<"D", "e", "f", "e", "i", "t", "o", " ">>,
     MuitoInsatisfeito |-> <<"m", "u", "i", "t", "o", "_", "i", "n", "s", "a", "t",
         "i", "s", "f", "e", "i", "t", "o">>,
     Baixa |-> <<"b", "a", "i", "x", "a">>,
     MediaAcento |-> <<"M", "é", "d", "i", "a">>,
     Resumo |-> <<"R", "e", "s", "u", "m", "o">>,
     Ponto |-> <<"P", "o", "n", "t", "o">>,
     Logistica |-> <<"L", "o", "g", "í", "s", "t", "i", "c", "a">>,
     AtendimentoN2 |-> <<"A", "t", "e", "n", "d", "i", "m", "e", "n", "t", "o", " ",
         "N", "2">>,
     AtrasoNaEntrega |-> <<"A", "t", "r", "a", "s", "o", " ", "n", "a", " ", "e", "n",
         "t", "r", "e", "g", "a">>,
     AtendimentoRuim |-> <<"A", "t", "e", "n", "d", "i", "m", "e", "n", "t", "o", " ",
         "r", "u", "i", "m">>,
     Timeout |-> <<"C", "o", "n", "n", "e", "c", "t", "i", "o", "n", " ", "t", "i",
         "m", "e", "o", "u", "t">>,
     JiraDown |-> <<"J", "i", "r", "a", " ", "u", "n", "a", "v", "a", "i", "l", "a",
         "b", "l", "e">>,
     Xyz |-> <<"x", "y", "z">>,
     Desculpe |-> <<"D", "e", "s", "c", "u", "l", "p", "e", ",", " ", "n", "ã", "o", " ", "s", "e", "i">>,
     TeamsFile |-> <<"t", "e", "a", "m", "s", ".", "j", "s", "o", "n", " ", "n", "o",
         "t", " ", "f", "o", "u", "n", "d">>]

Complaint(id, external_id, source, title, description, contact, created_at) ==
    [id |-> id, external_id |-> external_id, source |-> source,
     title |-> title, description |-> description,
     consumer_name |-> "consumer", consumer_contact |-> contact,
     created_at |-> created_at,
     \* company_name, channel, city, state, product_category, status
     other |-> "other fields"]

C_Pii == Complaint(None, "RA-1", "reclame_aqui", Sample.Cpf, Sample.Procon, Some(Sample.Email), "datetime")

C_Plain == Complaint(Some("c-2"), "CH-2", "chat", Sample.Atraso, Sample.NadaChegou, None, "datetime")

C_NoTitle == Complaint(Some("c-3"), "CH-3", "chat", <<>>, Sample.NadaChegou, None, "datetime")

C_BadDescription ==
    Complaint(Some("c-4"), "RA-4", "reclame_aqui", Sample.Atraso, NonString, None, "datetime")

C_BadDate ==
    Complaint(Some("c-5"), "CH-5", "chat", Sample.Atraso, Sample.NadaChegou, None, "not a datetime")

Complaints == {C_Pii, C_Plain, C_NoTitle, C_BadDescription, C_BadDate}

\* The complaints given to process_batch: one that passes every stage or
\* fails at any of them, one that fails validation, one that makes
\* anonymization raise
BatchComplaints == {C_Pii, C_NoTitle, C_BadDescription}

\* Lists of at most n complaints
ComplaintLists(n) == UNION {[1..k -> BatchComplaints] : k \in 0..n}

R_Full ==
    [category |-> Sample.ProdutoNaoEntregue, sentiment |-> Sample.MuitoInsatisfeito,
     urgency |-> Sample.Baixa, summary |-> Sample.Resumo,
     key_issues |-> IssuesList(<< Sample.Ponto, Sample.Ponto >>)]

R_Partial == [category |-> Sample.Defeito, urgency |-> Sample.MediaAcento]

\* Recognised keys with values no mapping knows
R_Unknown ==
    [category |-> Sample.Xyz, sentiment |-> Sample.Xyz, urgency |-> Sample.Xyz,
     summary |-> Sample.Resumo, key_issues |-> IssuesStr(Sample.Ponto)]

\* response.content: a JSON object in a ```json fence, a bare JSON object,
\* or other text
Content(kind, members) ==
    [kind |-> "content", members |-> members,
     content |->
        CASE kind = "fenced" ->
               <<"<backtick>", "<backtick>", "<backtick>", "j", "s", "o", "n", "\n",
                 "{", "<members>", "}", "\n", "<backtick>", "<backtick>", "<backtick>">>
          [] kind = "object" -> <<" ", "{", "<members>", "}", "\n">>
          [] kind = "empty object" -> <<"{", "}">>
          [] kind = "list" -> <<"[", "]">>
          [] kind = "text" -> Sample.Desculpe]

\* What llm.ainvoke may do in a workflow run
LLMOutcomes ==
    {Content("fenced", R_Full),
     [kind |-> "raises", message |-> Sample.Timeout]}

\* What llm.ainvoke may do when a stage is executed on its own
StageLLMOutcomes ==
    LLMOutcomes \cup {Content("object", R_Partial), Content("object", R_Unknown),
                      Content("list", NonDict), Content("text", NonDict)}

Team(id, name, categories, sla_hours) ==
    [id |-> id, name |-> name, email |-> id, categories |-> categories,
     sla_hours |-> sla_hours, responsibilities |-> << "area 1", "area 2" >>]

TeamLogistica ==
    Team("team-logistica", Sample.Logistica, << Sample.AtrasoNaEntrega, Sample.ProdutoNaoEntregue >>,
         [critica |-> 4, alta |-> 8, media |-> 24])

TeamN2 ==
    Team("team-n2", Sample.AtendimentoN2, << Sample.AtendimentoRuim >>,
         [critica |-> 2, alta |-> 12, media |-> 24, baixa |-> 72])

\* What teams.json may hold
TeamConfigs == {<<>>, << TeamLogistica, TeamN2 >>}

SearchOutcomes ==
    {[kind |-> "teams", teams |-> << TeamN2 >>],
     [kind |-> "teams", teams |-> <<>>],
     [kind |-> "raises"]}

\* What create_ticket may do
TicketOutcomes ==
    {[kind |-> "ok"],
     [kind |-> "raises", message |-> Sample.Timeout],
     [kind |-> "raises", message |-> Sample.JiraDown]}

\* What send_team_notification and send_customer_notification may do
NotifyOutcomes ==
    {[kind |-> "ok"],
     [kind |-> "raises", message |-> Sample.Timeout]}

\* ------------------------------------------------------------------------
\* State
\* ------------------------------------------------------------------------
VARIABLES
    teams_file,      \* what teams.json holds (read by loader.load_teams)
    orch,            \* the ComplaintOrchestrator: flags, _cosmos, _stats
    agents,          \* the agent singletons, by name
    states,          \* the ComplaintState objects of the running call
    results,         \* the list the call returns: references into states
    cur,             \* the index of the state being processed
    pc,              \* "idle", "run", "save", "return", "raised", "done"
    step,            \* the stage pc refers to
    exc,             \* str(e) of the exception in flight when pc = "raised"
    call,            \* the entry point called and how it ended (for an execute
                     \* of the analyst: llm, what llm.ainvoke did)
    calls,           \* the collaborator calls made so far, each with its record
    cosmos_log,      \* the calls of the Cosmos DB service made for the current
                     \* record, in order
    ticket_counter,  \* MockJiraClient._ticket_counter
    writes           \* the values assigned to workflow_status during the call,
                     \* in order, each with its record

vars ==
    << teams_file, orch, agents, states, results, cur, pc, step, exc, call, calls,
       cosmos_log, ticket_counter, writes >>

Steps == << "anonymize", "analyze", "route", "communicate" >>

\* The stage agent that runs a step
StageOf(s) ==
    CASE s = "analyze" -> "analyst"
      [] s = "route" -> "router"
      [] s = "communicate" -> "communicator"

\* ComplaintState(complaint_raw=complaint, workflow_status=NEW, ...)
NewState(complaint) ==
    [complaint_raw        |-> complaint,
     complaint_anonymized |-> None,
     complaint_analyzed   |-> None,
     routing_decision     |-> None,
     ticket_info          |-> None,
     notification_info    |-> None,
     workflow_status      |-> "NEW",
     errors               |-> <<>>,
     started_at           |-> "utcnow",
     completed_at         |-> None]

\* str(uuid.uuid4()) for the n-th state of a call
Uuid(n) == "uuid-" \o ToString(n)

\* collect_single(complaint) for the n-th complaint of a call
CollectSingle(complaint, n) ==
    NewState(IF complaint.id = None THEN [complaint EXCEPT !.id = Some(Uuid(n))]
             ELSE complaint)

ZeroStats ==
    [total_processed |-> 0, successful |-> 0, failed |-> 0,
     by_status |-> [s \in {} |-> 0]]

\* Statistics that count every record that is not COMPLETED as successful too
UpdateStatsAllSuccessful(stats, state) ==
    [total_processed |-> stats.total_processed + 1,
     by_status  |-> [s \in DOMAIN stats.by_status \cup {state.workflow_status} |->
                        IF s = state.workflow_status
                        THEN DictGet(stats.by_status, s, 0) + 1
                        ELSE stats.by_status[s]],
     successful |-> stats.successful + 1,
     failed     |-> stats.failed]

\* _update_stats(state)
UpdateStats(stats, state) ==
    LET status == state.workflow_status
    IN  [total_processed |-> stats.total_processed + 1,
         by_status  |-> [s \in DOMAIN stats.by_status \cup {status} |->
                            IF s = status
                            THEN DictGet(stats.by_status, s, 0) + 1
                            ELSE stats.by_status[s]],
         successful |-> IF status = "COMPLETED" THEN stats.successful + 1
                        ELSE stats.successful,
         failed     |-> IF status # "COMPLETED" /\ status \in FailedStatuses
                        THEN stats.failed + 1 ELSE stats.failed]

\* ------------------------------------------------------------------------
\* ComplaintOrchestrator.initialize
\* ------------------------------------------------------------------------
LoadOutcomes ==
    {[kind |-> "teams", teams |-> teams_file],
     [kind |-> "raises", message |-> Sample.TeamsFile]}

\* Each agent's initialize() is called directly; only PrivacyAgent.initialize
\* sets _initialized itself.
InitializeAgentsUpTo(ags, router_init) ==
    [ags EXCEPT
        !.collector = [@ EXCEPT !.init_runs = @ + 1, !.data_loader = TRUE],
        !.privacy   = [@ EXCEPT !.init_runs = @ + 1, !.initialized = TRUE],
        !.analyst   = Initialize("analyst", @, None).agent,
        !.router    = router_init.agent]

\* initialize(): [raised, orch, agents]
OrchInitialize(o, ags, load, search_ok, cosmos_ok) ==
    LET router_init == RouterInitialize(ags.router, load, search_ok)
        upto        == InitializeAgentsUpTo(ags, router_init)
    IN  IF o.initialized
        THEN [raised |-> FALSE, orch |-> o, agents |-> ags]
        ELSE IF router_init.raised
        THEN [raised |-> TRUE, orch |-> o, agents |-> upto]
        ELSE [raised |-> FALSE,
              orch |-> [o EXCEPT !.initialized = TRUE,
                                 !.cosmos = o.enable_persistence /\ cosmos_ok],
              agents |-> [upto EXCEPT !.communicator =
                              Initialize("communicator", @, None).agent]]

\* ------------------------------------------------------------------------
\* Init
\* ------------------------------------------------------------------------
NewAgents(use_azure_search) ==
    [collector    |-> [initialized |-> FALSE, init_runs |-> 0, data_loader |-> FALSE],
     privacy      |-> [initialized |-> FALSE, init_runs |-> 0],
     analyst      |-> [initialized |-> FALSE, init_runs |-> 0, llm_client |-> FALSE],
     router       |-> [initialized |-> FALSE, init_runs |-> 0,
                       use_azure_search |-> use_azure_search, search_client |-> FALSE,
                       teams |-> <<>>, category_to_team |-> <<>>],
     communicator |-> [initialized |-> FALSE, init_runs |-> 0,
                       jira_client |-> FALSE, email_client |-> FALSE]]

\* MockJiraClient._ticket_counter of a fresh process
JiraFirstCounter == 1000

NoCall == [kind |-> "none", outcome |-> "none"]

Init ==
    /\ teams_file \in TeamConfigs
    /\ \E use_azure_search \in BOOLEAN, enable_persistence \in BOOLEAN :
          /\ orch = [initialized |-> FALSE, use_azure_search |-> use_azure_search,
                     enable_persistence |-> enable_persistence, cosmos |-> FALSE,
                     stats |-> ZeroStats]
          /\ agents = NewAgents(use_azure_search)
    /\ states = <<>>
    /\ results = <<>>
    /\ cur = 0
    /\ pc = "idle"
    /\ step = "none"
    /\ exc = <<>>
    /\ call = NoCall
    /\ calls = <<>>
    /\ cosmos_log = <<>>
    /\ ticket_counter = JiraFirstCounter
    /\ writes = <<>>

\* ------------------------------------------------------------------------
\* Entry points
\* ------------------------------------------------------------------------
\* await orchestrator.initialize() by the caller, before any processing
\* (scripts/process_batch.py)
CallInitialize ==
    /\ pc = "idle"
    /\ ~ orch.initialized
    /\ \E load \in LoadOutcomes, search_ok \in BOOLEAN, cosmos_ok \in BOOLEAN :
          LET r == OrchInitialize(orch, agents, load, search_ok, cosmos_ok)
          IN  /\ orch' = r.orch
              /\ agents' = r.agents
              /\ IF r.raised
                 THEN /\ pc' = "done"
                      /\ call' = [kind |-> "initialize", outcome |-> "raised"]
                 ELSE UNCHANGED << pc, call >>
    /\ UNCHANGED << teams_file, states, results, cur, step, exc, calls, cosmos_log,
                    ticket_counter, writes >>

\* The call starts its first workflow run, or returns an empty list.
Begin(kind, r, new_states) ==
    /\ orch' = r.orch
    /\ agents' = r.agents
    /\ IF r.raised
       THEN /\ call' = [kind |-> kind, outcome |-> "raised"]
            /\ pc' = "done"
            /\ UNCHANGED << states, cur, step >>
       ELSE /\ states' = new_states
            /\ IF new_states = <<>>
               THEN /\ call' = [kind |-> kind, outcome |-> "returned"]
                    /\ pc' = "done"
                    /\ UNCHANGED << cur, step >>
               ELSE /\ call' = [kind |-> kind, outcome |-> "running"]
                    /\ pc' = "run"
                    /\ cur' = 1
                    /\ step' = "anonymize"
    /\ writes' = <<>>
    /\ UNCHANGED << teams_file, results, exc, calls, cosmos_log, ticket_counter >>

\* process_complaint(complaint) up to the call of _execute_workflow
ProcessComplaint ==
    /\ pc = "idle"
    /\ \E complaint \in Complaints,
          load \in LoadOutcomes, search_ok \in BOOLEAN, cosmos_ok \in BOOLEAN :
          Begin("process_complaint",
                OrchInitialize(orch, agents, load, search_ok, cosmos_ok),
                << CollectSingle(complaint, 1) >>)

\* complaints[:limit] if limit else complaints
Limited(complaints, limit) ==
    IF limit # None /\ limit[1] # 0
    THEN SubSeq(complaints, 1, IF limit[1] < Len(complaints) THEN limit[1]
                               ELSE Len(complaints))
    ELSE complaints

\* process_batch(complaints, limit) for a given list, up to the first
\* workflow run
ProcessBatch ==
    /\ pc = "idle"
    /\ \E complaints \in ComplaintLists(MaxBatch),
          limit \in {None} \cup {Some(n) : n \in 0..MaxBatch},
          load \in LoadOutcomes, search_ok \in BOOLEAN, cosmos_ok \in BOOLEAN :
          LET chosen == Limited(complaints, limit)
          IN  Begin("process_batch",
                    OrchInitialize(orch, agents, load, search_ok, cosmos_ok),
                    [n \in 1..Len(chosen) |-> CollectSingle(chosen[n], n)])

\* ------------------------------------------------------------------------
\* _execute_workflow
\* ------------------------------------------------------------------------
Tagged(made) == [n \in 1..Len(made) |-> [rec |-> cur, collab |-> made[n].collab,
                                         arg |-> made[n].arg, ok |-> made[n].ok]]

\* The statuses written to the current record
TaggedWrites(written) == [n \in 1..Len(written) |-> [rec |-> cur, status |-> written[n]]]

\* _execute_workflow after process_state ended as r
Anonymized(r) ==
    /\ writes' = writes \o TaggedWrites(r.writes)
    /\ IF r.exc # "none"
       THEN /\ pc' = "raised"
            /\ exc' = r.message
            /\ UNCHANGED states
       ELSE /\ pc' = "save"
            /\ states' = [states EXCEPT ![cur] = r.state]
            /\ UNCHANGED exc

\* Step 1: self.privacy.process_state(state)
Anonymize ==
    /\ pc = "run" /\ step = "anonymize"
    /\ Anonymized(PrivacyProcessState(states[cur]))
    /\ UNCHANGED << teams_file, orch, agents, results, cur, step, call, calls, cosmos_log,
                    ticket_counter >>

\* What a stage execution may meet at its collaborators
Outcomes(a, llms, loads) ==
    CASE a = "analyst" -> [llm : llms]
      [] a = "router" -> [search : SearchOutcomes, load : loads, search_ok : BOOLEAN]
      [] a = "communicator" ->
           [ticket : TicketOutcomes, team : NotifyOutcomes, customer : NotifyOutcomes]

\* Whether the execution made create_ticket return a ticket
TicketCreated(a, made, out) ==
    /\ a = "communicator"
    /\ out.ticket.kind = "ok"
    /\ \E n \in 1..Len(made) : made[n].collab = "create_ticket"

\* _execute_workflow after execute of stage a ended as r
Executed(a, out, r) ==
    /\ states' = [states EXCEPT ![cur] = r.state]
    /\ agents' = [agents EXCEPT ![a] = r.agent]
    /\ calls' = calls \o Tagged(r.calls)
    /\ writes' = writes \o TaggedWrites(r.writes)
    /\ ticket_counter' = IF TicketCreated(a, r.calls, out)
                          THEN ticket_counter + 1 ELSE ticket_counter
    /\ IF r.raised
       THEN pc' = "raised" /\ exc' = r.message
       ELSE pc' = "save" /\ UNCHANGED exc

\* Steps 2 to 4: self.<agent>.execute(state)
RunStage ==
    /\ pc = "run" /\ step # "anonymize"
    /\ \E out \in Outcomes(StageOf(step), LLMOutcomes,
                            {[kind |-> "teams", teams |-> teams_file]}) :
          Executed(StageOf(step), out,
                   Execute(StageOf(step), states[cur], agents[StageOf(step)], out,
                           ticket_counter))
    /\ UNCHANGED << teams_file, orch, results, cur, step, call, cosmos_log >>

\* A workflow without the early returns: every step is followed by the next.
AfterStepNoShortCircuit(s, status) ==
    CASE s = "anonymize" -> "analyze"
      [] s = "analyze" -> "route"
      [] s = "route" -> "communicate"
      [] s = "communicate" -> "return"

\* A workflow that runs the communicate step again when it failed
AfterStepRetries(s, status) ==
    CASE s = "anonymize" -> "analyze"
      [] s = "analyze" -> IF status = "FAILED_LLM" THEN "return" ELSE "route"
      [] s = "route" -> IF status = "FAILED_ROUTING" THEN "return" ELSE "communicate"
      [] s = "communicate" -> IF status = "FAILED_JIRA" THEN "communicate" ELSE "return"

\* Where _execute_workflow goes after the save that follows a step:
\* the next step, or "return"
AfterStep(s, status) ==
    CASE s = "anonymize" -> "analyze"
      [] s = "analyze" -> IF status = "FAILED_LLM" THEN "return" ELSE "route"
      [] s = "route" -> IF status = "FAILED_ROUTING" THEN "return" ELSE "communicate"
      [] s = "communicate" -> "return"

SaveOutcomes == {"ok", "save_complaint raises", "log_event raises"}

\* A _save_state that skips a state with a FAILED_* status
SavedUnlessFailed(state, step_name, outcome) ==
    IF state.workflow_status \in FailedStatuses
    THEN <<>>
    ELSE << [op |-> "save_complaint", step |-> step_name,
             status |-> state.workflow_status, ok |-> outcome # "save_complaint raises"] >>

\* The calls _save_state makes to the Cosmos DB service; ok tells whether
\* the call returned
Saved(state, step_name, outcome) ==
    LET doc   == [op |-> "save_complaint", step |-> step_name,
                  status |-> state.workflow_status,
                  ok |-> outcome # "save_complaint raises"]
        event == [op |-> "log_event", step |-> step_name,
                  status |-> state.workflow_status,
                  ok |-> outcome # "log_event raises"]
    IN  IF outcome = "save_complaint raises" THEN << doc >> ELSE << doc, event >>

\* A _save_state without its try block: a failing collaborator ends the run
AfterSavePropagates(s, status, outcome) ==
    IF outcome = "ok" THEN AfterStep(s, status) ELSE "raised"

\* Where _execute_workflow stands after _save_state met outcome: the except
\* block swallows the exception, so the test that follows the save decides.
AfterSave(s, status, outcome) == AfterStep(s, status)

\* _save_state(state, step_name) and the check that follows it
SaveState ==
    /\ pc = "save"
    /\ \E outcome \in (IF orch.cosmos THEN SaveOutcomes ELSE {"ok"}) :
          LET next == AfterSave(step, states[cur].workflow_status, outcome)
          IN  /\ cosmos_log' = IF orch.cosmos
                               THEN cosmos_log \o Saved(states[cur], step, outcome)
                               ELSE cosmos_log
              /\ IF next = "raised"
                 THEN pc' = "raised" /\ exc' = Sample.Timeout /\ UNCHANGED step
                 ELSE IF next = "return"
                 THEN pc' = "return" /\ UNCHANGED << step, exc >>
                 ELSE pc' = "run" /\ step' = next /\ UNCHANGED exc
    /\ UNCHANGED << teams_file, orch, agents, states, results, cur, call, calls,
                    ticket_counter, writes >>

\* ------------------------------------------------------------------------
\* After _execute_workflow
\* ------------------------------------------------------------------------
\* The next state of the batch, or the end of the call
Continue ==
    IF call.kind = "process_batch" /\ cur < Len(states)
    THEN /\ cur' = cur + 1
         /\ pc' = "run"
         /\ step' = "anonymize"
         /\ cosmos_log' = <<>>
         /\ UNCHANGED call
    ELSE /\ pc' = "done"
         /\ call' = [call EXCEPT !.outcome = "returned"]
         /\ UNCHANGED << cur, step, cosmos_log >>

\* _execute_workflow returned: _update_stats(result), and in a batch
\* results.append(result)
FinishRecord ==
    /\ pc = "return"
    /\ orch' = [orch EXCEPT !.stats = UpdateStats(@, states[cur])]
    /\ results' = Append(results, cur)
    /\ Continue
    /\ UNCHANGED << teams_file, agents, states, exc, calls, ticket_counter, writes >>

\* No entry point with a try block around _execute_workflow
CaughtNowhere(kind) == FALSE

\* Whether the entry point calls _execute_workflow inside try/except
\* Exception: process_batch does, process_complaint does not.
Caught(kind) == kind = "process_batch"

\* An except block that sets the status and drops the exception text
BatchFailureNoText(state, text) ==
    [state EXCEPT !.workflow_status = "FAILED_LLM"]

\* The state the except block of process_batch leaves
BatchFailure(state, text) ==
    [state EXCEPT !.workflow_status = "FAILED_LLM", !.errors = Append(@, text)]

\* _execute_workflow raised: process_batch records the failure and goes
\* on, process_complaint lets the exception out.
HandleException ==
    /\ pc = "raised"
    /\ IF Caught(call.kind)
       THEN /\ states' = [states EXCEPT ![cur] = BatchFailure(@, exc)]
            /\ writes' = writes \o TaggedWrites(<< "FAILED_LLM" >>)
            /\ results' = Append(results, cur)
            /\ orch' = [orch EXCEPT !.stats = UpdateStats(@, states'[cur])]
            /\ Continue
       ELSE /\ pc' = "done"
            /\ call' = [call EXCEPT !.outcome = "raised"]
            /\ UNCHANGED << states, results, orch, cur, step, cosmos_log, writes >>
    /\ exc' = <<>>
    /\ UNCHANGED << teams_file, agents, calls, ticket_counter >>

Next ==
    \/ CallInitialize
    \/ ProcessComplaint
    \/ ProcessBatch
    \/ Anonymize
    \/ RunStage
    \/ SaveState
    \/ FinishRecord
    \/ HandleException

Spec == Init /\ [][Next]_vars

\* The event loop resumes the coroutine of a started call: every await of the
\* workflow returns or raises and the call moves to its next position.  The
\* steps of Anonymize, RunStage, SaveState, FinishRecord and HandleException
\* are the steps of Next that start at a running position, each of them is
\* enabled at its position whatever the state holds, and each changes pc.
Resume ==
    /\ pc \in {"run", "save", "return", "raised"}
    /\ pc' \in {"run", "save", "return", "raised", "done"} \ {pc}

SpecLive == Spec /\ WF_pc(Resume)

\* ------------------------------------------------------------------------
\* A caller that drives the stage agents itself on one state: it may run
\* privacy.process_state first and then calls execute of any stage, in any
\* order (the stage API of base.py; the workflow above is one such caller).
\* ------------------------------------------------------------------------
\* The most execute calls the caller makes
MaxExecutes == 3

NoExecute ==
    [kind |-> "none", outcome |-> "none", stage |-> "none", exc |-> "none", n |-> 0,
     llm |-> "none"]

InitStage ==
    /\ teams_file \in TeamConfigs
    /\ \E use_azure_search \in BOOLEAN :
          /\ orch = [initialized |-> FALSE, use_azure_search |-> use_azure_search,
                     enable_persistence |-> FALSE, cosmos |-> FALSE,
                     stats |-> ZeroStats]
          /\ agents = NewAgents(use_azure_search)
    /\ \E complaint \in Complaints : states = << CollectSingle(complaint, 1) >>
    /\ results = <<>>
    /\ cur = 1
    /\ pc = "stage"
    /\ step = "none"
    /\ exc = <<>>
    /\ call = NoExecute
    /\ calls = <<>>
    /\ cosmos_log = <<>>
    /\ ticket_counter = JiraFirstCounter
    /\ writes = <<>>

\* privacy.process_state(state) ended as r
StageAnonymized(r) ==
    /\ writes' = writes \o TaggedWrites(r.writes)
    /\ IF r.exc # "none"
       THEN /\ pc' = "done"
            /\ call' = [call EXCEPT !.kind = "process_state", !.outcome = "raised"]
            /\ UNCHANGED states
       ELSE /\ states' = << r.state >>
            /\ UNCHANGED << pc, call >>

\* The caller runs privacy.process_state(state) before any stage
StageAnonymize ==
    /\ pc = "stage"
    /\ call.kind = "none"
    /\ states[1].complaint_anonymized = None
    /\ StageAnonymized(PrivacyProcessState(states[1]))
    /\ UNCHANGED << teams_file, orch, agents, results, cur, step, exc, calls, cosmos_log,
                    ticket_counter >>

\* execute of stage a ended as r
StageExecuted(a, out, r) ==
    /\ states' = << r.state >>
    /\ agents' = [agents EXCEPT ![a] = r.agent]
    /\ calls' = calls \o Tagged(r.calls)
    /\ writes' = writes \o TaggedWrites(r.writes)
    /\ ticket_counter' = IF TicketCreated(a, r.calls, out)
                          THEN ticket_counter + 1 ELSE ticket_counter
    /\ call' = [kind |-> "execute", stage |-> a, exc |-> r.exc, n |-> call.n + 1,
                outcome |-> IF r.raised THEN "raised" ELSE "returned",
                llm |-> IF a = "analyst" THEN out.llm.kind ELSE "none"]
    /\ pc' = IF r.raised THEN "done" ELSE "stage"

\* The caller runs <agent>.execute(state)
ExecuteStage ==
    /\ pc = "stage"
    /\ call.n < MaxExecutes
    /\ \E a \in StageNames :
          \E out \in Outcomes(a, StageLLMOutcomes, LoadOutcomes) :
             StageExecuted(a, out, Execute(a, states[1], agents[a], out, ticket_counter))
    /\ UNCHANGED << teams_file, orch, results, cur, step, exc, cosmos_log >>

NextStage ==
    \/ StageAnonymize
    \/ ExecuteStage

SpecStage == InitStage /\ [][NextStage]_vars

\* ------------------------------------------------------------------------
\* A caller that applies one operation of the agents to one input
\* ------------------------------------------------------------------------
\* Texts with the urgency level their keywords imply: none, a high keyword,
\* a critical keyword in upper case, a high and a critical keyword
KeywordTexts ==
    {[level |-> "none", text |-> Sample.NadaChegou],
     [level |-> "alta", text |-> <<"P", "r", "e", "c", "i", "s", "o", " ", "n", "o", " ", "p", "r", "a", "z", "o">>],
     [level |-> "critica", text |-> <<"V", "o", "u", " ", "a", "o", " ", "P", "R", "O", "C", "O", "N">>],
     [level |-> "critica", text |-> <<"V", "i", "a", "g", "e", "m", ",", " ", "P", "r", "o", "c", "o", "n">>]}

\* A team that declares a word of several categories and, in upper case, a
\* category TeamLogistica declares too
TeamProdutos ==
    Team("team-produtos", <<"P", "r", "o", "d", "u", "t", "o", "s">>,
         << <<"P", "r", "o", "d", "u", "t", "o">>, <<"A", "T", "R", "A", "S", "O", " ", "N", "A", " ", "E", "N", "T", "R", "E", "G", "A">> >>,
         [critica |-> 4, alta |-> 8, media |-> 24])

\* A team that declares two words found in one category
TeamTrocas ==
    Team("team-trocas", <<"T", "r", "o", "c", "a", "s">>, << <<"d", "e", "f", "e", "i", "t", "o">>, <<"c", "o", "m">> >>,
         [critica |-> 4, alta |-> 8, media |-> 24])

\* What teams.json may hold when the router is applied on its own: no team,
\* a team without the second-line marker in its name, both teams, and teams
\* whose categories overlap or are parts of category names, in both orders
RouterTeamConfigs ==
    {<<>>, << TeamLogistica >>, << TeamLogistica, TeamN2 >>,
     << TeamLogistica, TeamProdutos >>, << TeamProdutos, TeamN2, TeamLogistica >>,
     << TeamProdutos, TeamTrocas >>, << TeamTrocas, TeamProdutos >>}

\* A state the analyze stage left with the given category
AnalyzedState(category) ==
    [NewState(C_Plain) EXCEPT
        !.complaint_analyzed = Some([DefaultAnalysis("c-2") EXCEPT !.category = category]),
        !.workflow_status = "ANALYZED"]

\* The pieces of the texts _mask_pii is applied to: ordinary words, numbers
\* that are no PII, and the written forms of a CPF, an e-mail address, a
\* phone number and a card number
TextPieces ==
    {[class |-> "word", text |-> <<"O", "i">>],
     [class |-> "word", text |-> <<"p", "e", "d", "i", "d", "o">>],
     [class |-> "number", text |-> <<"1", "2", "3", "4", "5">>],
     [class |-> "number", text |-> <<"2", "0", "2", "4", "-", "1", "1">>],
     [class |-> "number", text |-> <<"R", "$", " ", "9", "9", ",", "9", "0">>],
     [class |-> "cpf", text |-> <<"1", "2", "3", ".", "4", "5", "6", ".", "7", "8", "9", "-", "0", "0">>],
     [class |-> "cpf", text |-> <<"1", "2", "3", "4", "5", "6", "7", "8", "9", "0", "0">>],
     [class |-> "email", text |-> <<"j", "o", "a", "o", "@", "t", "e", "s", "t", "e", ".", "c", "o", "m">>],
     [class |-> "email", text |-> <<"j", ".", "s", "_", "1", "+", "t", "@", "e", "-", "t", ".", "c", "o", "m", ".", "b", "r">>],
     [class |-> "telefone", text |-> <<"(", "1", "1", ")", " ", "9", "8", "7", "6", "5", "-", "4", "3", "2", "1">>],
     [class |-> "telefone", text |-> <<"1", "1", " ", "9", "8", "7", "6", "5", "-", "4", "3", "2", "1">>],
     [class |-> "telefone", text |-> <<"(", "1", "1", ")", " ", "3", "4", "5", "6", "-", "7", "8", "9", "0">>],
     [class |-> "telefone", text |-> <<"1", "1", "9", "8", "7", "6", "5", "4", "3", "2", "1">>],
     [class |-> "cartao", text |-> <<"1", "2", "3", "4", " ", "5", "6", "7", "8", " ", "9", "0", "1", "2", " ", "3", "4", "5", "6">>],
     [class |-> "cartao", text |-> <<"1", "2", "3", "4", "-", "5", "6", "7", "8", "-", "9", "0", "1", "2", "-", "3", "4", "5", "6">>],
     [class |-> "cartao", text |-> <<"1", "2", "3", "4", "5", "6", "7", "8", "9", "0", "1", "2", "3", "4", "5", "6">>]}

\* The most pieces in a text
MaxPieces == 2

\* " ".join(texts)
RECURSIVE JoinTexts(_)
JoinTexts(texts) ==
    IF texts = <<>> THEN <<>>
    ELSE IF Len(texts) = 1 THEN texts[1]
    ELSE texts[1] \o <<" ">> \o JoinTexts(Tail(texts))

InitApply ==
    /\ teams_file = <<>>
    /\ orch = [initialized |-> FALSE, use_azure_search |-> FALSE,
               enable_persistence |-> FALSE, cosmos |-> FALSE, stats |-> ZeroStats]
    /\ agents = NewAgents(FALSE)
    /\ states = <<>>
    /\ results = <<>>
    /\ cur = 0
    /\ pc = "idle"
    /\ step = "none"
    /\ exc = <<>>
    /\ call = NoCall
    /\ calls = <<>>
    /\ cosmos_log = <<>>
    /\ ticket_counter = JiraFirstCounter
    /\ writes = <<>>

\* analyst.process(state) returned r for a response with urgency returned,
\* on a record whose text implies level
AnalystApplied(returned, level, r) ==
    /\ states' = << r.state >>
    /\ call' = [kind |-> "analyst.process", outcome |-> "returned",
                returned |-> returned, level |-> level]

\* AnalystAgent.process(state) with an LLM client, for a response with one
\* of the urgency spellings and a record with a keyword text as its title or
\* its description
ApplyAnalystProcess ==
    /\ pc = "idle"
    /\ \E m \in 1..Len(UrgencyMappings), kt \in KeywordTexts, in_title \in BOOLEAN :
          AnalystApplied(UrgencyMappings[m].value, kt.level,
              AnalystProcess(
                  NewState(Complaint(Some("c-9"), "CH-9", "chat",
                                     IF in_title THEN kt.text ELSE Sample.Atraso,
                                     IF in_title THEN Sample.Atraso ELSE kt.text,
                                     None, "datetime")),
                  Initialize("analyst", agents.analyst, None).agent,
                  Analyze(Content("object", [urgency |-> UrgencyMappings[m].key]))))
    /\ pc' = "done"
    /\ UNCHANGED << teams_file, orch, agents, results, cur, step, exc, calls, cosmos_log,
                    ticket_counter, writes >>

\* RouterAgent._determine_priority(urgency, sentiment)
ApplyDeterminePriority ==
    /\ pc = "idle"
    /\ \E urgency \in Urgency, sentiment \in Sentiment :
          call' = [kind |-> "_determine_priority", outcome |-> "returned",
                   urgency |-> urgency, sentiment |-> sentiment,
                   priority |-> DeterminePriority(urgency, sentiment)]
    /\ pc' = "done"
    /\ UNCHANGED << teams_file, orch, agents, states, results, cur, step, exc, calls,
                    cosmos_log, ticket_counter, writes >>

\* router.execute(state) ended as r for the search outcome search
RouterApplied(category, search, r) ==
    /\ states' = << r.state >>
    /\ writes' = TaggedWrites(r.writes)
    /\ agents' = [agents EXCEPT !.router = r.agent]
    /\ calls' = Tagged(r.calls)
    /\ call' = [kind |-> "router.execute",
                outcome |-> IF r.raised THEN "raised" ELSE "returned",
                category |-> category,
                search |-> IF search.kind = "raises" THEN "raises"
                           ELSE IF search.teams = <<>> THEN "empty" ELSE "found"]

\* RouterAgent.execute(state) of a fresh router on an analyzed state, for
\* each category, team configuration and search outcome
ApplyRouterExecute ==
    /\ pc = "idle"
    /\ \E category \in ComplaintCategory, teams \in RouterTeamConfigs,
          use_azure_search \in BOOLEAN, search_ok \in BOOLEAN, search \in SearchOutcomes :
          RouterApplied(category, search,
              Execute("router", AnalyzedState(category),
                      NewAgents(use_azure_search).router,
                      [search |-> search, search_ok |-> search_ok,
                       load |-> [kind |-> "teams", teams |-> teams]],
                      ticket_counter))
    /\ pc' = "done"
    /\ UNCHANGED << teams_file, orch, results, cur, step, exc, cosmos_log, ticket_counter >>

\* A state the route stage left, with both teams configured
RoutedState ==
    Execute("router", AnalyzedState("ATRASO_ENTREGA"), NewAgents(FALSE).router,
            [search |-> [kind |-> "teams", teams |-> <<>>], search_ok |-> FALSE,
             load |-> [kind |-> "teams", teams |-> << TeamLogistica, TeamN2 >>]],
            JiraFirstCounter).state

\* communicator.execute(state) ended as second on the state a first
\* execution left as first
CommunicatorRetried(first, out2, counter, second) ==
    /\ states' = << second.state >>
    /\ ticket_counter' = IF TicketCreated("communicator", second.calls, out2)
                          THEN counter + 1 ELSE counter
    /\ agents' = [agents EXCEPT !.communicator = second.agent]
    /\ calls' = Tagged(first.calls \o second.calls)
    /\ writes' = TaggedWrites(first.writes \o second.writes)
    /\ call' = [kind |-> "communicator.execute", outcome |-> "returned", n |-> 2,
                ticket_before |-> first.state.ticket_info,
                calls_before |-> Len(first.calls)]

\* The second execution, on the state and with the agent and the ticket
\* counter the first one left
RetryAfter(out2, counter, first) ==
    CommunicatorRetried(first, out2, counter,
        Execute("communicator", first.state, first.agent, out2, counter))

\* CommunicatorAgent.execute(state) twice in a row on a routed state, for
\* each outcome of the ticket and e-mail collaborators
ApplyCommunicatorRetry ==
    /\ pc = "idle"
    /\ \E out1 \in Outcomes("communicator", {}, {}),
          out2 \in Outcomes("communicator", {}, {}) :
          RetryAfter(out2,
              IF out1.ticket.kind = "ok" THEN ticket_counter + 1 ELSE ticket_counter,
              Execute("communicator", RoutedState, NewAgents(FALSE).communicator, out1,
                      ticket_counter))
    /\ pc' = "done"
    /\ UNCHANGED << teams_file, orch, results, cur, step, exc, cosmos_log >>

\* The complaints the mock data loader holds, in file order
LoadedComplaints == << C_Pii, C_Plain, C_NoTitle >>

\* The source filters passed to process_batch
SourceFilters == {None, Some("chat"), Some("reclame_aqui")}

\* [s for s in states if s.complaint_raw.source.value == source_filter] when
\* source_filter is truthy
SourceFiltered(complaints, source_filter) ==
    IF source_filter # None /\ source_filter[1] # ""
    THEN SelectSeq(complaints, LAMBDA c : c.source = source_filter[1])
    ELSE complaints

\* The complaints whose states process_batch(complaints, limit, source_filter)
\* goes on to process, in order: the loaded ones, filtered and then limited,
\* when complaints is None, else the given ones, limited
SelectBatch(complaints, limit, source_filter) ==
    IF complaints = None
    THEN Limited(SourceFiltered(LoadedComplaints, source_filter), limit)
    ELSE Limited(complaints[1], limit)

\* process_batch(complaints, limit, source_filter) up to the processing loop,
\* for each list or None, each limit and each source filter
ApplySelectBatch ==
    /\ pc = "idle"
    /\ \E complaints \in {None} \cup {Some(l) : l \in ComplaintLists(MaxBatch)},
          limit \in {None} \cup {Some(n) : n \in 0..MaxBatch},
          source_filter \in SourceFilters :
          call' = [kind |-> "process_batch.select", outcome |-> "returned",
                   complaints |-> complaints, limit |-> limit,
                   source_filter |-> source_filter,
                   selected |-> SelectBatch(complaints, limit, source_filter)]
    /\ pc' = "done"
    /\ UNCHANGED << teams_file, orch, agents, states, results, cur, step, exc,
                    calls, cosmos_log, ticket_counter, writes >>

\* Category strings an LLM response may carry: a category name, a key in
\* upper case between blanks, a name with a full stop, words of no category,
\* a word of several keys, a sentence around a key, the empty string, blanks,
\* letters no key has, a letter of a key
CategoryStrings ==
    {<<"A", "t", "r", "a", "s", "o", " ", "n", "a", " ", "e", "n", "t", "r", "e", "g", "a">>,
     <<" ", " ", "D", "E", "F", "E", "I", "T", "O", " ", "\n">>,
     <<"C", "o", "b", "r", "a", "n", "ç", "a", " ", "i", "n", "d", "e", "v", "i", "d", "a", ".">>,
     <<"E", "n", "t", "r", "e", "g", "a", " ", "a", "t", "r", "a", "s", "a", "d", "a">>,
     <<"P", "r", "o", "d", "u", "t", "o">>,
     <<"P", "e", "d", "i", "d", "o", " ", "d", "e", " ", "r", "e", "e", "m", "b", "o", "l", "s", "o", " ", "u", "r", "g", "e", "n", "t", "e">>,
     <<>>,
     <<" ", " ", " ">>,
     <<"x", "y", "z">>,
     <<"e">>}

\* AnalystAgent._parse_category(category_str) for each category string
ApplyParseCategory ==
    /\ pc = "idle"
    /\ \E category_str \in CategoryStrings :
          call' = [kind |-> "_parse_category", outcome |-> "returned",
                   category_str |-> category_str,
                   category |-> ParseCategory(category_str)]
    /\ pc' = "done"
    /\ UNCHANGED << teams_file, orch, agents, states, results, cur, step, exc,
                    calls, cosmos_log, ticket_counter, writes >>

\* PrivacyAgent._mask_pii(text) for the empty text and each text of pieces
\* separated by a space
ApplyMaskPii ==
    /\ pc = "idle"
    /\ \E n \in 0..MaxPieces : \E pieces \in [1..n -> TextPieces] :
          call' = [kind |-> "_mask_pii", outcome |-> "returned", pieces |-> pieces,
                   masked |-> MaskPii(JoinTexts([i \in 1..n |-> pieces[i].text]))]
    /\ pc' = "done"
    /\ UNCHANGED << teams_file, orch, agents, states, results, cur, step, exc, calls,
                    cosmos_log, ticket_counter, writes >>

NextApply ==
    \/ ApplyAnalystProcess
    \/ ApplyDeterminePriority
    \/ ApplyRouterExecute
    \/ ApplyMaskPii
    \/ ApplyCommunicatorRetry
    \/ ApplySelectBatch
    \/ ApplyParseCategory

SpecApply == InitApply /\ [][NextApply]_vars

\* ------------------------------------------------------------------------
\* The graph workflow (complaint_graph.py): START -> anonymize -> analyze ->
\* route -> communicate -> END on one graph state, run side by side with
\* _execute_workflow on a ComplaintState of the same record and with the
\* same collaborator outcomes
\* ------------------------------------------------------------------------
\* The literals of the nodes; validation_error stands for the str() of the
\* pydantic ValidationError
GraphText ==
    [anonymization_error |-> <<"A", "n", "o", "n", "y", "m", "i", "z", "a", "t", "i", "o", "n", " ", "e", "r", "r", "o", "r", ":", " ">>,
     analysis_error |-> <<"A", "n", "a", "l", "y", "s", "i", "s", " ", "e", "r", "r", "o", "r", ":", " ">>,
     routing_error |-> <<"R", "o", "u", "t", "i", "n", "g", " ", "e", "r", "r", "o", "r", ":", " ">>,
     communication_error |-> <<"C", "o", "m", "m", "u", "n", "i", "c", "a", "t", "i", "o", "n", " ", "e", "r", "r", "o", "r", ":", " ">>,
     no_analysis |-> <<"N", "o", " ", "a", "n", "a", "l", "y", "s", "i", "s", " ", "d", "a", "t", "a", " ", "a", "v", "a", "i", "l", "a", "b", "l", "e", " ", "f", "o", "r", " ", "r", "o", "u", "t", "i", "n", "g">>,
     no_routing |-> <<"N", "o", " ", "r", "o", "u", "t", "i", "n", "g", " ", "d", "e", "c", "i", "s", "i", "o", "n", " ", "a", "v", "a", "i", "l", "a", "b", "l", "e">>,
     attribute_error |-> <<"'", "T", "i", "c", "k", "e", "t", "I", "n", "f", "o", "'", " ", "o", "b", "j", "e", "c", "t", " ", "h", "a", "s", " ", "n", "o", " ", "a", "t", "t", "r", "i", "b", "u", "t", "e", " ", "'", "t", "i", "c", "k", "e", "t", "_", "k", "e", "y", "'">>,
     validation_error |-> << "1 validation error for ComplaintRaw" >>]

\* model.model_dump(mode="json"): the dict of the model
ModelDump(model) == [dict |-> model]

\* Model(**data): the model of a dict
ModelLoad(data) == data.dict

\* Whether ComplaintRaw(**raw_data) validates: description is a str and
\* created_at a datetime
ValidRaw(raw_data) ==
    IsStr(raw_data.dict.description) /\ raw_data.dict.created_at = "datetime"

\* ensure_defaults(state) for an input {"complaint_raw": ..., "errors": []}
EnsureDefaults(raw_data) ==
    [complaint_raw        |-> raw_data,
     complaint_anonymized |-> None,
     complaint_analyzed   |-> None,
     routing_decision     |-> None,
     ticket_info          |-> None,
     notification_info    |-> None,
     current_step         |-> "new",
     workflow_status      |-> "NEW",
     errors               |-> <<>>,
     started_at           |-> "utcnow",
     completed_at         |-> None]

\* state.get("workflow_status", "").startswith("FAILED")
GraphFailed(status) == status \in FailedStatuses \cup {"FAILED_ANONYMIZATION"}

\* The except block of a node: errors.append(f"<prefix>{str(e)}") and the
\* failure status of the node
NodeFailed(state, prefix, message, status) ==
    [state EXCEPT !.errors = Append(@, prefix \o message),
                  !.workflow_status = status]

\* anonymize_node(state)
AnonymizeNode(state) ==
    IF ~ ValidRaw(state.complaint_raw)
    THEN NodeFailed(state, GraphText.anonymization_error, GraphText.validation_error,
                    "FAILED_ANONYMIZATION")
    ELSE LET r == PrivacyProcessState(NewState(ModelLoad(state.complaint_raw)))
         IN  IF r.exc # "none"
             THEN NodeFailed(state, GraphText.anonymization_error, r.message,
                             "FAILED_ANONYMIZATION")
             ELSE [state EXCEPT
                      !.complaint_anonymized =
                          Some(ModelDump(r.state.complaint_anonymized[1])),
                      !.current_step = "anonymized",
                      !.workflow_status = "ANONYMIZED"]

\* Some(Model(**data)) for a populated field of the graph state
Loaded(field) == IF field = None THEN None ELSE Some(ModelLoad(field[1]))

\* Some(model.model_dump(mode="json")) for a populated field of the result
Dumped(field) == IF field = None THEN None ELSE Some(ModelDump(field[1]))

\* The ComplaintState the node of stage a builds for its agent
AgentState(a, state) ==
    [NewState(ModelLoad(state.complaint_raw)) EXCEPT
        !.complaint_anonymized =
            IF a = "analyst" THEN Loaded(state.complaint_anonymized) ELSE None,
        !.complaint_analyzed =
            IF a = "analyst" THEN None ELSE Loaded(state.complaint_analyzed),
        !.routing_decision =
            IF a = "communicator" THEN Loaded(state.routing_decision) ELSE None,
        !.workflow_status =
            CASE a = "analyst" -> "ANONYMIZED"
              [] a = "router" -> "ANALYZED"
              [] a = "communicator" -> "ROUTED"]

\* f"<Node> error: " of the node of stage a
NodePrefix(a) ==
    CASE a = "analyst" -> GraphText.analysis_error
      [] a = "router" -> GraphText.routing_error
      [] a = "communicator" -> GraphText.communication_error

\* The dict the node of stage a returns after its agent returned result
\* (result.errors is not read); reading result.ticket_info.ticket_key raises
\* AttributeError
NodeReturn(a, state, result) ==
    CASE a = "analyst" ->
           [state EXCEPT
               !.complaint_analyzed = Dumped(result.complaint_analyzed),
               !.current_step = "analyzed",
               !.workflow_status = result.workflow_status]
      [] a = "router" ->
           [state EXCEPT
               !.routing_decision = Dumped(result.routing_decision),
               !.current_step = "routed",
               !.workflow_status = result.workflow_status]
      [] a = "communicator" ->
           IF result.ticket_info # None
           THEN NodeFailed(state, NodePrefix(a), GraphText.attribute_error, "FAILED_JIRA")
           ELSE [state EXCEPT
                    !.ticket_info = None,
                    !.notification_info = Dumped(result.notification_info),
                    !.current_step = "completed",
                    !.workflow_status = result.workflow_status,
                    !.completed_at = Some("utcnow")]

\* A node that did not reach its agent
NodeStopped(state, agent) ==
    [state |-> state, agent |-> agent, calls |-> <<>>, writes |-> <<>>,
     ticket |-> FALSE]

\* The node of stage a after execute ended as r
NodeExecuted(a, state, out, r) ==
    [state |-> IF r.raised
               THEN NodeFailed(state, NodePrefix(a), r.message, FailureStatus(a))
               ELSE NodeReturn(a, state, r.state),
     agent |-> r.agent, calls |-> r.calls, writes |-> r.writes,
     ticket |-> TicketCreated(a, r.calls, out)]

\* The node of stage a after agent.initialize() ended as init
NodeInitialized(a, state, out, counter, init) ==
    IF init.raised
    THEN NodeStopped(NodeFailed(state, NodePrefix(a), init.message, FailureStatus(a)),
                     init.agent)
    ELSE NodeExecuted(a, state, out,
                      Execute(a, AgentState(a, state), init.agent, out, counter))

\* analyze_node, route_node, communicate_node: the node of stage a on state;
\* [state, agent, calls, writes, ticket]
StageNode(a, state, agent, out, counter) ==
    IF GraphFailed(state.workflow_status)
    THEN NodeStopped(state, agent)
    ELSE IF ~ ValidRaw(state.complaint_raw)
    THEN NodeStopped(NodeFailed(state, NodePrefix(a), GraphText.validation_error,
                                FailureStatus(a)), agent)
    ELSE IF a = "router" /\ state.complaint_analyzed = None
    THEN NodeStopped(NodeFailed(state, NodePrefix(a), GraphText.no_analysis,
                                FailureStatus(a)), agent)
    ELSE IF a = "communicator" /\ state.routing_decision = None
    THEN NodeStopped(NodeFailed(state, NodePrefix(a), GraphText.no_routing,
                                FailureStatus(a)), agent)
    ELSE NodeInitialized(a, state, out, counter, Initialize(a, agent, out))

\* workflow.add_edge: the node that follows the node of step s
GraphEdge(s) ==
    CASE s = "anonymize" -> "analyze"
      [] s = "analyze" -> "route"
      [] s = "route" -> "communicate"

\* The stage agents of an initialized orchestrator without search
WorkflowAgents ==
    OrchInitialize(orch, NewAgents(FALSE), [kind |-> "teams", teams |-> teams_file],
                   FALSE, FALSE).agents

\* How _execute_workflow goes on after the step s left status
WorkflowAfter(s, raised, status) ==
    IF raised THEN "raised"
    ELSE IF AfterStep(s, status) = "return" THEN "returned"
    ELSE "running"

InitGraph ==
    /\ teams_file \in TeamConfigs
    /\ orch = [initialized |-> FALSE, use_azure_search |-> FALSE,
               enable_persistence |-> FALSE, cosmos |-> FALSE, stats |-> ZeroStats]
    /\ agents = NewAgents(FALSE)
    /\ \E complaint \in Complaints :
          states = << EnsureDefaults(ModelDump(complaint)), CollectSingle(complaint, 1) >>
    /\ results = <<>>
    /\ cur = 1
    /\ pc = "graph"
    /\ step = "anonymize"
    /\ exc = <<>>
    /\ call = [kind |-> "graph", outcome |-> "running", workflow |-> "running"]
    /\ calls = <<>>
    /\ cosmos_log = <<>>
    /\ ticket_counter = JiraFirstCounter
    /\ writes = <<>>

\* The anonymize step of both: the node left node, process_state ended as w
GraphAnonymized(node, w) ==
    /\ states' = << node, IF w.exc # "none" THEN states[2] ELSE w.state >>
    /\ call' = [call EXCEPT !.workflow = WorkflowAfter("anonymize", w.exc # "none",
                                                        "ANONYMIZED")]
    /\ writes' = IF node.workflow_status = "ANONYMIZED"
                 THEN TaggedWrites(<< "ANONYMIZED" >>) ELSE writes
    /\ agents' = IF ValidRaw(states[1].complaint_raw)
                 THEN [agents EXCEPT !.privacy = [@ EXCEPT !.init_runs = @ + 1,
                                                           !.initialized = TRUE]]
                 ELSE agents

\* START -> anonymize
GraphAnonymize ==
    /\ pc = "graph" /\ step = "anonymize"
    /\ GraphAnonymized(AnonymizeNode(states[1]), PrivacyProcessState(states[2]))
    /\ step' = GraphEdge(step)
    /\ UNCHANGED << teams_file, orch, results, cur, pc, exc, calls, cosmos_log,
                    ticket_counter >>

\* The step s of both: the node ended as node, execute of the workflow as w
GraphStepped(s, node, w) ==
    /\ states' = << node.state, IF call.workflow = "running" THEN w.state ELSE states[2] >>
    /\ agents' = [agents EXCEPT ![StageOf(s)] = node.agent]
    /\ calls' = calls \o Tagged(node.calls)
    /\ writes' = writes \o TaggedWrites(node.writes)
    /\ ticket_counter' = IF node.ticket THEN ticket_counter + 1 ELSE ticket_counter
    /\ IF s = "communicate"
       THEN /\ pc' = "done"
            /\ call' = [call EXCEPT !.outcome = "returned",
                           !.workflow = IF @ = "running" THEN "returned" ELSE @]
            /\ UNCHANGED step
       ELSE /\ step' = GraphEdge(s)
            /\ call' = [call EXCEPT
                           !.workflow = IF @ = "running"
                                        THEN WorkflowAfter(s, w.raised, w.state.workflow_status)
                                        ELSE @]
            /\ UNCHANGED pc

\* analyze -> route -> communicate -> END
GraphNode ==
    /\ pc = "graph" /\ step # "anonymize"
    /\ \E out \in Outcomes(StageOf(step), StageLLMOutcomes,
                            {[kind |-> "teams", teams |-> teams_file]}) :
          GraphStepped(step,
              StageNode(StageOf(step), states[1], agents[StageOf(step)], out,
                        ticket_counter),
              Execute(StageOf(step), states[2], WorkflowAgents[StageOf(step)], out,
                      JiraFirstCounter))
    /\ UNCHANGED << teams_file, orch, results, cur, exc, cosmos_log >>

NextGraph ==
    \/ GraphAnonymize
    \/ GraphNode

SpecGraph == InitGraph /\ [][NextGraph]_vars

\* ------------------------------------------------------------------------
\* Background tasks of the API on one orchestrator
\* (api/routes/complaints.py: process_complaints adds _process_batch as a
\* background task; get_orchestrator() returns the one orchestrator, with
\* use_azure_search False and enable_persistence True).
\*
\* Each task runs process_batch; the event loop may switch tasks at an await.
\* The variables hold one value per task: pc, step, cur, results and call are
\* sequences over the tasks.  states is the heap of ComplaintState objects,
\* call[t].refs the objects of task t's list, call[t].alone what the same
\* records become when the run has an orchestrator of its own and meets the
\* same collaborator outcomes.  orch, agents and ticket_counter are shared.
\*
\* The code between two awaits is one step.  StatefulAgent.execute after its
\* initialize() is one step too: validate_input and process read and write
\* the task's own state, the fields of the agent that initialize() has set
\* (every initialize() sets the same values) and, once, the ticket counter
\* (MockJiraClient.create_ticket holds no await).
\* ------------------------------------------------------------------------
\* The background tasks started
MaxTasks == 2

Tasks == 1..MaxTasks

\* The lists of records task t may select: the first task a record that
\* fails validation and one that passes, or one that makes anonymization
\* raise; every other task the record with PII and no id
TaskBatches(t) ==
    IF t = 1 THEN {<< C_NoTitle, C_Plain >>, << C_BadDescription >>} ELSE {<< C_Pii >>}

\* A collector that hands out the objects at the start of the heap again
NewRefsReused(heap, n) == [k \in 1..n |-> k]

\* ComplaintState(...): n new objects, none of them in the heap yet
NewRefs(heap, n) == [k \in 1..n |-> Len(heap) + k]

\* The heap after objs were stored at refs
Stored(heap, refs, objs) ==
    LET top == IF refs # <<>> /\ refs[Len(refs)] > Len(heap)
               THEN refs[Len(refs)] ELSE Len(heap)
    IN  [r \in 1..top |->
            IF \E k \in 1..Len(refs) : refs[k] = r
            THEN objs[CHOOSE k \in 1..Len(refs) : refs[k] = r]
            ELSE heap[r]]

\* The agents of an orchestrator that no other run uses
AloneAgents ==
    OrchInitialize([orch EXCEPT !.initialized = FALSE], NewAgents(FALSE),
                   [kind |-> "teams", teams |-> teams_file], FALSE, FALSE).agents

\* The object task t is processing
Ref(t) == call[t].refs[cur[t]]

InitTasks ==
    /\ teams_file \in TeamConfigs
    /\ orch = [initialized |-> FALSE, use_azure_search |-> FALSE,
               enable_persistence |-> TRUE, cosmos |-> FALSE, stats |-> ZeroStats]
    /\ agents = NewAgents(FALSE)
    /\ states = <<>>
    /\ results = [t \in Tasks |-> <<>>]
    /\ cur = [t \in Tasks |-> 0]
    /\ pc = [t \in Tasks |-> "start"]
    /\ step = [t \in Tasks |-> "none"]
    /\ exc = <<>>
    /\ call \in [Tasks -> [kind : {"process_batch"}, outcome : {"running"},
                           complaints : UNION {TaskBatches(t) : t \in Tasks},
                           refs : {<<>>}, alone : {<<>>}]]
    /\ \A t \in Tasks : call[t].complaints \in TaskBatches(t)
    /\ calls = <<>>
    /\ cosmos_log = <<>>
    /\ ticket_counter = JiraFirstCounter
    /\ writes = <<>>

\* if not self._initialized: await self.initialize()
TaskStart(t) ==
    /\ pc[t] = "start"
    /\ pc' = [pc EXCEPT ![t] = IF orch.initialized THEN "collect" ELSE "init"]
    /\ UNCHANGED << teams_file, orch, agents, states, results, cur, step, exc, call,
                    calls, cosmos_log, ticket_counter, writes >>

\* initialize() of a task that found _initialized False ended as r
TaskInitialized(t, r) ==
    /\ agents' = r.agents
    /\ IF r.raised
       THEN /\ pc' = [pc EXCEPT ![t] = "done"]
            /\ call' = [call EXCEPT ![t].outcome = "raised"]
            /\ UNCHANGED orch
       ELSE /\ pc' = [pc EXCEPT ![t] = "collect"]
            /\ orch' = [orch EXCEPT !.initialized = TRUE, !.cosmos = r.orch.cosmos]
            /\ UNCHANGED call

\* The body of initialize(), whatever another task has initialized meanwhile
TaskInitialize(t) ==
    /\ pc[t] = "init"
    /\ \E load \in LoadOutcomes, cosmos_ok \in BOOLEAN :
          TaskInitialized(t, OrchInitialize([orch EXCEPT !.initialized = FALSE], agents,
                                            load, FALSE, cosmos_ok))
    /\ UNCHANGED << teams_file, states, results, cur, step, exc, calls, cosmos_log,
                    ticket_counter, writes >>

\* The states of the run were created as objs at refs
TaskCollected(t, refs, objs) ==
    /\ states' = Stored(states, refs, objs)
    /\ call' = [call EXCEPT ![t].refs = refs, ![t].alone = objs]
    /\ cur' = [cur EXCEPT ![t] = 1]
    /\ pc' = [pc EXCEPT ![t] = "run"]
    /\ step' = [step EXCEPT ![t] = "anonymize"]

\* states = await self.collector.execute(None): one ComplaintState per record
TaskCollect(t) ==
    /\ pc[t] = "collect"
    /\ TaskCollected(t, NewRefs(states, Len(call[t].complaints)),
                     [k \in 1..Len(call[t].complaints) |->
                         CollectSingle(call[t].complaints[k],
                                       NewRefs(states, Len(call[t].complaints))[k])])
    /\ UNCHANGED << teams_file, orch, agents, results, exc, calls, cosmos_log,
                    ticket_counter, writes >>

\* The run of the current record of task t ended, in heap: results.append and
\* _update_stats, then the next record of the list or the return
TaskFinished(t, heap, alone) ==
    /\ results' = [results EXCEPT ![t] = Append(@, Ref(t))]
    /\ orch' = [orch EXCEPT !.stats = UpdateStats(@, heap[Ref(t)])]
    /\ IF cur[t] < Len(call[t].refs)
       THEN /\ cur' = [cur EXCEPT ![t] = @ + 1]
            /\ pc' = [pc EXCEPT ![t] = "run"]
            /\ step' = [step EXCEPT ![t] = "anonymize"]
            /\ call' = [call EXCEPT ![t].alone = alone]
       ELSE /\ pc' = [pc EXCEPT ![t] = "done"]
            /\ call' = [call EXCEPT ![t].alone = alone, ![t].outcome = "returned"]
            /\ UNCHANGED << cur, step >>

\* process_state ended as r on the object, as w on the record alone
TaskAnonymized(t, r, w) ==
    IF r.exc # "none"
    THEN /\ states' = [states EXCEPT ![Ref(t)] = BatchFailure(@, r.message)]
         /\ TaskFinished(t, states',
                [call[t].alone EXCEPT ![cur[t]] =
                    IF w.exc # "none" THEN BatchFailure(@, w.message) ELSE w.state])
    ELSE /\ states' = [states EXCEPT ![Ref(t)] = r.state]
         /\ call' = [call EXCEPT ![t].alone[cur[t]] =
                        IF w.exc # "none" THEN BatchFailure(@, w.message) ELSE w.state]
         /\ pc' = [pc EXCEPT ![t] = "save"]
         /\ UNCHANGED << orch, results, cur, step >>

\* Step 1 of _execute_workflow; an exception reaches the except block of
\* process_batch without an await
TaskAnonymize(t) ==
    /\ pc[t] = "run" /\ step[t] = "anonymize"
    /\ TaskAnonymized(t, PrivacyProcessState(states[Ref(t)]),
                      PrivacyProcessState(call[t].alone[cur[t]]))
    /\ UNCHANGED << teams_file, agents, exc, calls, cosmos_log, ticket_counter, writes >>

\* execute of steps 2 to 4 up to its first await:
\* if not self._initialized: await self.initialize()
TaskInitStage(t) ==
    /\ pc[t] = "run" /\ step[t] # "anonymize"
    /\ agents' = IF NeedsInitialize(agents[StageOf(step[t])])
                 THEN [agents EXCEPT ![StageOf(step[t])] =
                         Initialize(StageOf(step[t]), @,
                                    [load |-> [kind |-> "teams", teams |-> teams_file],
                                     search_ok |-> FALSE]).agent]
                 ELSE agents
    /\ pc' = [pc EXCEPT ![t] = "process"]
    /\ UNCHANGED << teams_file, orch, states, results, cur, step, exc, call, calls,
                    cosmos_log, ticket_counter, writes >>

\* execute of stage a ended as r on the object, as w on the record alone
TaskExecuted(t, a, out, r, w) ==
    /\ states' = [states EXCEPT ![Ref(t)] = r.state]
    /\ agents' = [agents EXCEPT ![a] = r.agent]
    /\ call' = [call EXCEPT ![t].alone[cur[t]] = w.state]
    /\ ticket_counter' = IF TicketCreated(a, r.calls, out)
                          THEN ticket_counter + 1 ELSE ticket_counter
    /\ pc' = [pc EXCEPT ![t] = "save"]

\* The rest of execute: self._initialized = True, validate_input, process
TaskProcess(t) ==
    /\ pc[t] = "process"
    /\ \E out \in Outcomes(StageOf(step[t]), LLMOutcomes,
                            {[kind |-> "teams", teams |-> teams_file]}) :
          TaskExecuted(t, StageOf(step[t]), out,
              Execute(StageOf(step[t]), states[Ref(t)],
                      [agents[StageOf(step[t])] EXCEPT !.initialized = TRUE], out,
                      ticket_counter),
              Execute(StageOf(step[t]), call[t].alone[cur[t]],
                      AloneAgents[StageOf(step[t])], out, ticket_counter))
    /\ UNCHANGED << teams_file, orch, results, cur, step, exc, calls, cosmos_log, writes >>

\* await self._save_state(state, step) and what follows it without an await:
\* the next step, or the return of _execute_workflow
TaskSave(t) ==
    /\ pc[t] = "save"
    /\ \E outcome \in (IF orch.cosmos THEN SaveOutcomes ELSE {"ok"}) :
          IF AfterSave(step[t], states[Ref(t)].workflow_status, outcome) = "return"
          THEN TaskFinished(t, states, call[t].alone)
          ELSE /\ step' = [step EXCEPT ![t] =
                              AfterSave(@, states[Ref(t)].workflow_status, outcome)]
               /\ pc' = [pc EXCEPT ![t] = "run"]
               /\ UNCHANGED << orch, results, cur, call >>
    /\ UNCHANGED << teams_file, agents, states, exc, calls, cosmos_log, ticket_counter,
                    writes >>

NextTasks ==
    \E t \in Tasks :
        \/ TaskStart(t)
        \/ TaskInitialize(t)
        \/ TaskCollect(t)
        \/ TaskAnonymize(t)
        \/ TaskInitStage(t)
        \/ TaskProcess(t)
        \/ TaskSave(t)

SpecTasks == InitTasks /\ [][NextTasks]_vars

\* ------------------------------------------------------------------------
\* Properties
\* ------------------------------------------------------------------------
\* The collaborator calls made for record i
CallsOf(log, i) == SelectSeq(log, LAMBDA c : c.rec = i)

\* A call of process_complaint or process_batch is under way or has ended
InWorkflow == call.kind \in {"process_complaint", "process_batch"}

\* C1: in a workflow run, once the status of a record is a FAILED_* value
\* the record is never touched again: its state (analysis, routing decision,
\* ticket info, notification info, status, errors) stays as the failing
\* stage left it, no collaborator is called for it and no stage is started
\* on it.
C1_ShortCircuit ==
    [][InWorkflow =>
         \A i \in 1..Len(states) :
            states[i].workflow_status \in FailedStatuses =>
               /\ states'[i] = states[i]
               /\ CallsOf(calls', i) = CallsOf(calls, i)
               /\ ~ (pc' = "run" /\ cur' = i)]_vars

\* A single-record call returned a record that failed in the analyze stage
\* after its one LLM call.
C1_Witness ==
    /\ call = [kind |-> "process_complaint", outcome |-> "returned"]
    /\ states[1].workflow_status = "FAILED_LLM"
    /\ Len(calls) = 1
    /\ calls[1].collab = "llm"
    /\ states[1].routing_decision = None

\* C2: every LLM call of a workflow run is made for a record whose
\* complaint_anonymized is populated, and the title and description in its
\* prompt are those of the anonymized copy.
C2_PromptIsAnonymized ==
    InWorkflow =>
       \A n \in 1..Len(calls) :
          calls[n].collab = "llm" =>
             /\ states[calls[n].rec].complaint_anonymized # None
             /\ calls[n].arg.title = states[calls[n].rec].complaint_anonymized[1].title
             /\ calls[n].arg.description =
                   states[calls[n].rec].complaint_anonymized[1].description

\* The LLM was called for a record whose raw title and description hold PII:
\* the prompt differs from the raw record in both.
C2_Witness ==
    /\ InWorkflow
    /\ \E n \in 1..Len(calls) :
          /\ calls[n].collab = "llm"
          /\ calls[n].arg.title # states[calls[n].rec].complaint_raw.title
          /\ calls[n].arg.description # states[calls[n].rec].complaint_raw.description

\* This step is the n-th execute call of the stage caller, on stage a
ExecuteStep(a) ==
    /\ pc = "stage"
    /\ call'.kind = "execute"
    /\ call'.n = call.n + 1
    /\ call'.stage = a

\* after is before with one entry appended to errors that starts with
\* "[<name of a>] ", and with the failure status of a; the fields no stage
\* writes are untouched.
FailedBy(a, before, after) ==
    /\ Len(after.errors) = Len(before.errors) + 1
    /\ SubSeq(after.errors, 1, Len(before.errors)) = before.errors
    /\ StartsWith(after.errors[Len(after.errors)], Bracket(AgentName(a)))
    /\ after.workflow_status = FailureStatus(a)
    /\ after.complaint_raw = before.complaint_raw
    /\ after.complaint_anonymized = before.complaint_anonymized
    /\ after.started_at = before.started_at

\* C3: execute never raises; when initialize or process raised an
\* AgentError or another exception, the state has exactly one more error,
\* prefixed with the stage name, and the failure status of the stage.
C3_ExecuteNeverRaises ==
    [][\A a \in StageNames :
          ExecuteStep(a) =>
             /\ call'.outcome = "returned"
             /\ pc' = "stage"
             /\ call'.exc \in {"AgentError", "Exception"} =>
                   FailedBy(a, states[1], states'[1])]_vars

\* The analyst's process raised an exception that is no AgentError and
\* execute returned the failed state.
C3_Witness ==
    /\ call.kind = "execute" /\ call.stage = "analyst" /\ call.exc = "Exception"
    /\ call.outcome = "returned"
    /\ states[1].workflow_status = "FAILED_LLM"
    /\ agents.analyst.initialized
    /\ states[1].errors = << Bracket(AnalystText.name) \o BaseText.unexpected \o AnalystText.attribute_error >>

\* What validate_input of stage a rejects
InvalidInput(a, state) ==
    CASE a = "analyst" ->
           state.complaint_raw.title = <<>> \/ state.complaint_raw.description = <<>>
      [] a = "router" -> state.complaint_analyzed = None
      [] a = "communicator" ->
           state.routing_decision = None \/ state.complaint_analyzed = None

\* C4: execute on a state that validate_input rejects appends exactly one
\* error, sets the failure status of the stage, changes nothing else of the
\* state (process is not run) and calls no collaborator.
C4_InvalidInput ==
    [][\A a \in StageNames :
          ExecuteStep(a) /\ InvalidInput(a, states[1]) =>
             /\ call'.outcome = "returned"
             /\ FailedBy(a, states[1], states'[1])
             /\ states'[1] = [states[1] EXCEPT
                                 !.errors = states'[1].errors,
                                 !.workflow_status = FailureStatus(a)]
             /\ calls' = calls
             /\ ticket_counter' = ticket_counter]_vars

\* The analyst rejected a record with an empty title.
C4_Witness ==
    /\ call.kind = "execute" /\ call.stage = "analyst" /\ call.exc = "invalid"
    /\ call.n = 1
    /\ states[1].complaint_raw.title = <<>>
    /\ states[1].workflow_status = "FAILED_LLM"
    /\ states[1].errors = << Bracket(AnalystText.name) \o BaseText.invalid_input_state >>
    /\ calls = <<>>

\* The statuses a finished workflow run leaves
FinalStatuses == FailedStatuses \cup {"COMPLETED"}

\* C5: process_batch returns one result per record, in input order,
\* whatever fails or raises; while record cur is processed the records
\* before it are finished, returned and counted, and the records after it
\* are untouched.
C5_OneResultPerRecord ==
    (call.kind = "process_batch" /\ states # <<>>) =>
       /\ results = [i \in 1..Len(results) |-> i]
       /\ orch.stats.total_processed = Len(results)
       /\ IF pc = "done"
          THEN call.outcome = "returned" /\ Len(results) = Len(states)
          ELSE Len(results) = cur - 1
       /\ \A i \in 1..Len(results) : states[i].workflow_status \in FinalStatuses
       /\ \A i \in 1..Len(states) :
             (pc # "done" /\ i > cur) =>
                states[i].workflow_status = "NEW" /\ CallsOf(calls, i) = <<>>
       /\ \A n \in 1..(Len(calls) - 1) : calls[n].rec <= calls[n + 1].rec

\* A batch of two returned two results: the first record made anonymization
\* raise, the second was completed.
C5_Witness ==
    /\ call = [kind |-> "process_batch", outcome |-> "returned"]
    /\ pc = "done"
    /\ Len(results) = 2
    /\ states[1].complaint_anonymized = None
    /\ states[1].workflow_status = "FAILED_LLM"
    /\ states[2].workflow_status = "COMPLETED"

\* The number of returned states whose status is in S
CountStatus(S) ==
    Cardinality({i \in 1..Len(results) : states[results[i]].workflow_status \in S})

\* The sum of the values of the histogram d
RECURSIVE SumValues(_)
SumValues(d) ==
    IF DOMAIN d = {} THEN 0
    ELSE LET k == CHOOSE x \in DOMAIN d : TRUE
         IN  d[k] + SumValues([x \in DOMAIN d \ {k} |-> d[x]])

\* C6: when process_batch has returned, on an orchestrator that started from
\* zero statistics, total_processed is the number of records, successful the
\* number of COMPLETED results, failed the number of FAILED_* results,
\* successful + failed = total_processed and the histogram sums to
\* total_processed, each status counted as often as it was returned.
C6_StatsAfterBatch ==
    (call = [kind |-> "process_batch", outcome |-> "returned"]) =>
       /\ orch.stats.total_processed = Len(states)
       /\ orch.stats.successful = CountStatus({"COMPLETED"})
       /\ orch.stats.failed = CountStatus(FailedStatuses)
       /\ orch.stats.successful + orch.stats.failed = orch.stats.total_processed
       /\ SumValues(orch.stats.by_status) = orch.stats.total_processed
       /\ \A st \in DOMAIN orch.stats.by_status :
             orch.stats.by_status[st] = CountStatus({st})

\* A batch of two returned one completed and one failed record.
C6_Witness ==
    /\ call = [kind |-> "process_batch", outcome |-> "returned"]
    /\ Len(results) = 2
    /\ orch.stats.successful = 1
    /\ orch.stats.failed = 1
    /\ orch.stats.by_status = [st \in {"COMPLETED", "FAILED_LLM"} |-> 1]

\* C7: once process_complaint has started the workflow of its record it does
\* not raise: it returns the state.  (Violated: an exception raised by the
\* anonymize stage leaves process_complaint.)
C7_ProcessComplaintNeverRaises ==
    (call.kind = "process_complaint" /\ states # <<>>) => call.outcome # "raised"

\* C8: _save_state changes no state and returns nothing, and the run goes on
\* as the status tells, whatever save_complaint and log_event did; so a run
\* with a failing save passes through the same states as the run whose
\* saves succeed.
C8_SaveFailureIsHarmless ==
    [][pc = "save" =>
         /\ states' = states
         /\ results' = results
         /\ orch' = orch
         /\ calls' = calls
         /\ IF AfterStep(step, states[cur].workflow_status) = "return"
            THEN pc' = "return" /\ step' = step
            ELSE pc' = "run" /\ cur' = cur
                 /\ step' = AfterStep(step, states[cur].workflow_status)]_vars

\* The save after the analyze stage wrote nothing (save_complaint raised)
\* and the route stage is about to run on the analyzed record.
C8_Witness ==
    /\ InWorkflow
    /\ orch.cosmos
    /\ pc = "run" /\ step = "route"
    /\ \E n \in 1..Len(cosmos_log) : cosmos_log[n].step = "analyze" /\ ~ cosmos_log[n].ok
    /\ states[cur].workflow_status = "ANALYZED"

\* C9: initialize() has run at most once on every agent.  (Violated: after
\* ComplaintOrchestrator.initialize the first execute of the analyst, the
\* router and the communicator runs initialize() again.)
C9_InitializeAtMostOnce ==
    \A a \in DOMAIN agents : agents[a].init_runs <= 1

\* C10: execute of the analyst on a state whose complaint_analyzed is
\* populated calls no collaborator, leaves complaint_analyzed as it is and
\* sets ANALYZED.  (Violated: process calls the LLM and overwrites the
\* analysis.)
C10_AnalyzedIsSkipped ==
    [][(ExecuteStep("analyst") /\ states[1].complaint_analyzed # None) =>
          /\ calls' = calls
          /\ states'[1].complaint_analyzed = states[1].complaint_analyzed
          /\ states'[1].workflow_status = "ANALYZED"]_vars

\* An Analysis with a category, a sentiment and an urgency of the fixed
\* vocabularies, a str summary and at most 4 key issues
ValidAnalysis(analysis) ==
    /\ analysis.category \in ComplaintCategory
    /\ analysis.sentiment \in Sentiment
    /\ analysis.urgency \in Urgency
    /\ IsStr(analysis.summary)
    /\ Len(analysis.key_issues) <= 4

\* C11: whenever the analyst called the LLM and the call returned content,
\* parseable or not, execute ends with ANALYZED and a valid analysis, never
\* with FAILED_LLM.  (Violated: content that is no JSON makes analyze raise
\* LLMError, and the stage fails with FAILED_LLM.)
C11_UnparseableIsAnalyzed ==
    [][(ExecuteStep("analyst") /\ call'.llm = "content" /\ calls' # calls) =>
          /\ states'[1].workflow_status = "ANALYZED"
          /\ states'[1].complaint_analyzed # None
          /\ ValidAnalysis(states'[1].complaint_analyzed[1])]_vars

\* The place of a level in baixa < media < alta < critica; 0 for no level
Rank(level) ==
    CASE level = "none" -> 0 [] level = "baixa" -> 1 [] level = "media" -> 2
      [] level = "alta" -> 3 [] level = "critica" -> 4

\* C12: the urgency of the analysis process builds is the higher of the
\* urgency the model returned and the level the keywords of the raw title and
\* description imply, and so never below the urgency the model returned.
C12_UrgencyRatchet ==
    call.kind = "analyst.process" =>
       /\ Rank(states[1].complaint_analyzed[1].urgency) >= Rank(call.returned)
       /\ Rank(states[1].complaint_analyzed[1].urgency) >= Rank(call.level)
       /\ states[1].complaint_analyzed[1].urgency \in {call.returned, call.level}

\* The model returned critica for a text with a high keyword only: the
\* urgency stays critica.
C12_Witness ==
    /\ call.kind = "analyst.process"
    /\ call.returned = "critica"
    /\ call.level = "alta"
    /\ states[1].complaint_analyzed[1].urgency = "critica"

\* The matrix of priorities by urgency and sentiment
PriorityMatrix ==
    [critica |-> [neutro |-> "critical", insatisfeito |-> "critical",
                  muito_insatisfeito |-> "critical"],
     alta    |-> [neutro |-> "high", insatisfeito |-> "high",
                  muito_insatisfeito |-> "critical"],
     media   |-> [neutro |-> "medium", insatisfeito |-> "medium",
                  muito_insatisfeito |-> "high"],
     baixa   |-> [neutro |-> "low", insatisfeito |-> "low",
                  muito_insatisfeito |-> "medium"]]

\* C13: _determine_priority returns the entry of the matrix for each of the
\* 4 urgency levels and 3 sentiments.
C13_PriorityMatrix ==
    call.kind = "_determine_priority" =>
       call.priority = PriorityMatrix[call.urgency][call.sentiment]

\* alta with muito_insatisfeito gave CRITICAL.
C13_Witness ==
    /\ call.kind = "_determine_priority"
    /\ call.urgency = "alta"
    /\ call.sentiment = "muito_insatisfeito"
    /\ call.priority = "critical"

\* The router was applied to an analyzed state with at least one team loaded
RoutedWithTeams == call.kind = "router.execute" /\ agents.router.teams # <<>>

\* The teams the routing decision may name: the loaded ones and the one the
\* search collaborator returns
KnownTeams ==
    {agents.router.teams[i] : i \in 1..Len(agents.router.teams)} \cup {TeamN2}

\* C14: with at least one team loaded, execute of the router on an analyzed
\* state ends ROUTED with a routing decision that names one known team, for
\* every category, declared by a team or not; it never ends FAILED_ROUTING.
C14_RoutingTotal ==
    RoutedWithTeams =>
       /\ call.outcome = "returned"
       /\ states[1].workflow_status = "ROUTED"
       /\ states[1].errors = <<>>
       /\ states[1].routing_decision # None
       /\ \E team \in KnownTeams :
             /\ states[1].routing_decision[1].team_id = team.id
             /\ states[1].routing_decision[1].team = team.name
             /\ states[1].routing_decision[1].responsible_email = team.email

\* A category no team declares, with one team loaded whose name has no
\* second-line marker and no search: the first team is taken.
C14_Witness ==
    /\ RoutedWithTeams
    /\ call.category = "COBRANCA_INDEVIDA"
    /\ agents.router.teams = << TeamLogistica >>
    /\ ~ agents.router.use_azure_search
    /\ states[1].workflow_status = "ROUTED"
    /\ states[1].routing_decision[1].team_id = TeamLogistica.id

\* The search collaborator was called and found nothing or raised
SearchFailed ==
    /\ call.kind = "router.execute"
    /\ call.search \in {"empty", "raises"}
    /\ \E n \in 1..Len(calls) : calls[n].collab = "search"

\* C15: in RAG mode, when the search returns an empty list or raises, the
\* routing decision is the one the local mapping gives for the state and the
\* stage ends ROUTED, not FAILED_ROUTING.
C15_RagFallsBackToMapping ==
    (SearchFailed /\ agents.router.teams # <<>>) =>
       /\ states[1].workflow_status = "ROUTED"
       /\ states[1].routing_decision # None
       /\ RouteWithMapping(states[1], agents.router) # None
       /\ states[1].routing_decision[1] =
             RoutingDecision(states[1], states[1].complaint_analyzed[1],
                             RouteWithMapping(states[1], agents.router)[1])

\* The search raised and the record went to the team that declares its
\* category.
C15_Witness ==
    /\ SearchFailed
    /\ call.search = "raises"
    /\ call.category = "ATRASO_ENTREGA"
    /\ states[1].workflow_status = "ROUTED"
    /\ states[1].routing_decision[1].team_id = TeamLogistica.id

\* process_complaint has started the workflow of a well-formed record (a str
\* title and description, both non-empty, and a datetime) with at least one
\* team configured
WellFormedStarted ==
    /\ call.kind = "process_complaint"
    /\ pc = "run" /\ step = "anonymize"
    /\ IsStr(states[1].complaint_raw.title) /\ states[1].complaint_raw.title # <<>>
    /\ IsStr(states[1].complaint_raw.description)
    /\ states[1].complaint_raw.description # <<>>
    /\ states[1].complaint_raw.created_at = "datetime"
    /\ teams_file # <<>>

\* A collaborator call of the run did not return
SomeCallFailed == \E n \in 1..Len(calls) : ~ calls[n].ok

\* process_complaint returned a completed record with every part populated
ReturnedCompleted ==
    /\ call = [kind |-> "process_complaint", outcome |-> "returned"]
    /\ states[1].workflow_status = "COMPLETED"
    /\ states[1].complaint_anonymized # None
    /\ states[1].complaint_analyzed # None
    /\ states[1].routing_decision # None
    /\ states[1].ticket_info # None
    /\ states[1].notification_info # None
    /\ states[1].completed_at # None
    /\ states[1].errors = <<>>

\* C16: a process_complaint call for a well-formed record with a non-empty
\* title and description and a configured team, in which no collaborator call
\* fails, eventually returns the record COMPLETED with the anonymized copy,
\* the analysis, the routing decision, the ticket and the notification
\* populated, completed_at set and no error.
C16_EventuallyCompleted ==
    WellFormedStarted ~> (SomeCallFailed \/ ReturnedCompleted)

\* The call returned the completed record after the LLM call, the ticket and
\* both notifications, none of which failed.
C16_Witness ==
    /\ ReturnedCompleted
    /\ ~ SomeCallFailed
    /\ Len(calls) >= 4
    /\ teams_file # <<>>

\* _mask_pii was applied to a text of pieces
MaskPiiApplied == call.kind = "_mask_pii"

PiiClasses == {PII_PATTERNS[k].name : k \in 1..Len(PII_PATTERNS)}

\* The marker of a PII class
Marker(class) ==
    PII_PATTERNS[CHOOSE k \in 1..Len(PII_PATTERNS) : PII_PATTERNS[k].name = class].replacement

Markers == {Marker(class) : class \in PiiClasses}

\* A text without the markers in it
WithoutMarkers(text) == SelectSeq(text, LAMBDA c : c \notin Markers)

\* The texts of the pieces that are no PII, and nothing for those that are
WordsOnly(pieces) ==
    [i \in 1..Len(pieces) |-> IF pieces[i].class \in PiiClasses THEN <<>> ELSE pieces[i].text]

\* The text is made of ordinary words and well-formed PII
WordsAndPii(pieces) ==
    \A i \in 1..Len(pieces) : pieces[i].class \in PiiClasses \cup {"word"}

\* C17: for a text of ordinary words and well-formed CPF, e-mail, phone and
\* card substrings, nothing of a PII substring is left in the output of
\* _mask_pii (without its markers the output is the words alone), and for each
\* PII substring the output holds the marker of its class.
C17_MaskedByOwnClass ==
    (MaskPiiApplied /\ WordsAndPii(call.pieces)) =>
        /\ WithoutMarkers(call.masked.text) = JoinTexts(WordsOnly(call.pieces))
        /\ \A i \in 1..Len(call.pieces) :
              call.pieces[i].class \in PiiClasses =>
                  Contains(<< Marker(call.pieces[i].class) >>, call.masked.text)

\* The text is made of ordinary words and card numbers
WordsAndCards(pieces) ==
    \A i \in 1..Len(pieces) : pieces[i].class \in {"word", "cartao"}

\* The pieces with each card number replaced by the card marker
CardsReplaced(pieces) ==
    [i \in 1..Len(pieces) |->
        IF pieces[i].class = "cartao" THEN << Marker("cartao") >> ELSE pieces[i].text]

MaskedInput == JoinTexts([i \in 1..Len(call.pieces) |-> call.pieces[i].text])

\* No pattern has a match anywhere in the text
NoPiiMatch(text) ==
    \A k \in 1..Len(PII_PATTERNS), pos \in 1..Len(text) :
        MatchFrom(PII_PATTERNS[k].pattern, 1, text, pos) = 0

\* C19: for a text in which none of the four patterns has a match, and for
\* the empty or missing text, _mask_pii returns the text as it is with
\* substitution count 0.
C19_NoPiiUnchanged ==
    (MaskPiiApplied /\ NoPiiMatch(MaskedInput)) =>
        call.masked = [text |-> MaskedInput, count |-> 0]

\* _mask_pii was applied to a text of a word and a number in which no
\* pattern has a match, and returned it with count 0.
C19_Witness ==
    /\ MaskPiiApplied
    /\ Len(call.pieces) = 2
    /\ call.pieces[1].class = "word"
    /\ call.pieces[2].class = "number"
    /\ NoPiiMatch(MaskedInput)
    /\ call.masked.count = 0

\* The fields of a record that process does not mask
UnmaskedFields == DOMAIN C_Plain \ {"description", "title", "consumer_contact"}

\* anonymized is a populated copy of raw: a record of its own with the same
\* fields, equal to raw in every field that is not masked
PopulatedCopy(anonymized, raw) ==
    /\ anonymized # None
    /\ DOMAIN anonymized[1] = DOMAIN raw
    /\ \A f \in UnmaskedFields : anonymized[1][f] = raw[f]

\* C20: in a workflow run no step changes complaint_raw of a record; the
\* anonymize step that returns leaves the record with a populated
\* complaint_anonymized, a copy of complaint_raw, and with status ANONYMIZED;
\* complaint_anonymized is populated by the anonymize step only, and once
\* populated no step changes it.
C20_RawIsNeverChanged ==
    [][(InWorkflow /\ pc \in {"run", "save", "return", "raised"}) =>
          /\ Len(states') = Len(states)
          /\ \A i \in 1..Len(states) :
                /\ states'[i].complaint_raw = states[i].complaint_raw
                /\ states[i].complaint_anonymized # None =>
                       states'[i].complaint_anonymized = states[i].complaint_anonymized
                /\ states'[i].complaint_anonymized # states[i].complaint_anonymized =>
                       (pc = "run" /\ step = "anonymize" /\ i = cur)
          /\ (pc = "run" /\ step = "anonymize" /\ pc' # "raised") =>
                /\ PopulatedCopy(states'[cur].complaint_anonymized, states[cur].complaint_raw)
                /\ states'[cur].workflow_status = "ANONYMIZED"]_vars

\* A record with PII went through every stage: it is COMPLETED, its raw
\* record still holds the PII and its anonymized copy holds the markers.
C20_Witness ==
    /\ InWorkflow
    /\ states # <<>>
    /\ states[1].workflow_status = "COMPLETED"
    /\ states[1].complaint_raw.title = C_Pii.title
    /\ states[1].complaint_raw.description = C_Pii.description
    /\ PopulatedCopy(states[1].complaint_anonymized, states[1].complaint_raw)
    /\ states[1].complaint_anonymized[1].title # C_Pii.title
    /\ Contains(<< "[CPF REMOVIDO]" >>, states[1].complaint_anonymized[1].title)

\* The order of the statuses of a record that passes every stage
StatusChain ==
    << "NEW", "ANONYMIZED", "ANALYZED", "ROUTED", "TICKET_CREATED", "NOTIFIED", "COMPLETED" >>

ChainIndex(status) == CHOOSE n \in 1..Len(StatusChain) : StatusChain[n] = status

\* The statuses record i went through in the call: NEW and what was written
StatusHistory(i) ==
    << "NEW" >> \o [n \in 1..Len(SelectSeq(writes, LAMBDA w : w.rec = i)) |->
                       SelectSeq(writes, LAMBDA w : w.rec = i)[n].status]

\* A write of next over before that advances along the chain, fails a record
\* that has not ended, or writes the status again that is there
LegalWrite(before, next) ==
    \/ next = before
    \/ /\ before \notin FailedStatuses \cup {"COMPLETED"}
       /\ \/ next \in FailedStatuses
          \/ ChainIndex(next) > ChainIndex(before)

\* C21: in a workflow run every write to workflow_status of a record advances
\* along NEW, ANONYMIZED, ANALYZED, ROUTED, TICKET_CREATED, NOTIFIED,
\* COMPLETED or takes a status that is not terminal to a FAILED_* status, and
\* no write changes a terminal status (COMPLETED, FAILED_*) once written.
C21_StatusOnlyAdvances ==
    InWorkflow =>
        \A i \in 1..Len(states) :
            \A n \in 1..(Len(StatusHistory(i)) - 1) :
                LegalWrite(StatusHistory(i)[n], StatusHistory(i)[n + 1])

\* s is a prefix of t
IsPrefix(s, t) == Len(s) <= Len(t) /\ SubSeq(t, 1, Len(s)) = s

SaveCalls == SelectSeq(cosmos_log, LAMBDA c : c.op = "save_complaint")

\* The first n steps of the workflow
FirstSteps(n) == SubSeq(Steps, 1, n)

\* The number of the step the workflow stands at
StepNumber == CHOOSE n \in 1..Len(Steps) : Steps[n] = step

\* C23: with persistence enabled, _save_state hands the state to the Cosmos DB
\* service after every executed stage, the failing one included, and before
\* the next stage starts: when a stage is about to run or has just run, the
\* steps saved so far are exactly the steps before it, in the order anonymize,
\* analyze, route, communicate; when the workflow returns, the steps saved are
\* the steps executed and the status of the last save is the status of the
\* state returned.
C23_SavedAfterEveryStage ==
    (InWorkflow /\ orch.cosmos) =>
        /\ pc \in {"run", "save", "raised"} =>
               [n \in 1..Len(SaveCalls) |-> SaveCalls[n].step] = FirstSteps(StepNumber - 1)
        /\ pc = "return" =>
               /\ [n \in 1..Len(SaveCalls) |-> SaveCalls[n].step] = FirstSteps(StepNumber)
               /\ SaveCalls[Len(SaveCalls)].status = states[cur].workflow_status

\* With persistence enabled the workflow returns a record the route stage
\* failed: anonymize, analyze and route were saved, the last with
\* FAILED_ROUTING.
C23_Witness ==
    /\ InWorkflow /\ orch.cosmos
    /\ pc = "return"
    /\ states[cur].workflow_status = "FAILED_ROUTING"
    /\ Len(SaveCalls) = 3
    /\ SaveCalls[3] = [op |-> "save_complaint", step |-> "route",
                       status |-> "FAILED_ROUTING", ok |-> TRUE]

\* The latest execute was the communicator's and its process failed
CommunicateFailed ==
    /\ call.kind = "execute"
    /\ call.stage = "communicator"
    /\ call.exc = "AgentError"

\* The entry the failed execute appended to errors
LastError == states[1].errors[Len(states[1].errors)]

\* C24: when the communicate stage fails, the status of the state that
\* CommunicatorAgent.execute returns tells the failure type: FAILED_JIRA when
\* the error text mentions 'ticket' or 'jira', FAILED_EMAIL otherwise.
C24_FailureTypeInStatus ==
    CommunicateFailed =>
        states[1].workflow_status =
            IF \/ Contains(CommunicatorText.ticket, Lower(LastError))
               \/ Contains(CommunicatorText.jira, Lower(LastError))
            THEN "FAILED_JIRA"
            ELSE "FAILED_EMAIL"

\* The communicator was executed again on a state with a ticket
RetriedWithTicket ==
    /\ call.kind = "communicator.execute"
    /\ call.ticket_before # None

\* C25: an execution of the communicate stage on a state whose ticket_info
\* is populated calls no collaborator (no second ticket, no further
\* notification): create_ticket has been called at most once for the record
\* and ticket_info keeps its value.
C25_TicketCreatedOnce ==
    RetriedWithTicket =>
        /\ Len(calls) = call.calls_before
        /\ Cardinality({n \in 1..Len(calls) : calls[n].collab = "create_ticket"}) <= 1
        /\ states[1].ticket_info = call.ticket_before


\* ------------------------------------------------------------------------
\* A record whose workflow raised, in a batch
\* ------------------------------------------------------------------------
\* The workflow of the current record of process_batch has raised
BatchRecordRaised == pc = "raised" /\ call.kind = "process_batch"

\* C26: in process_batch, when the workflow of a record raises, the step that
\* handles the exception returns that record at its input position with status
\* FAILED_LLM and the exception text appended to its errors, leaves the other
\* records alone, and counts the record once: total_processed and failed grow
\* by one, successful stays, and the histogram gains one FAILED_LLM.
C26_RaisedRecordIsFailed ==
    [][BatchRecordRaised =>
          /\ cur = Len(results) + 1
          /\ results' = Append(results, cur)
          /\ Len(states') = Len(states)
          /\ \A i \in 1..Len(states) : i # cur => states'[i] = states[i]
          /\ states'[cur] = [states[cur] EXCEPT !.workflow_status = "FAILED_LLM",
                                                !.errors = Append(@, exc)]
          /\ orch'.stats.total_processed = orch.stats.total_processed + 1
          /\ orch'.stats.failed = orch.stats.failed + 1
          /\ orch'.stats.successful = orch.stats.successful
          /\ SumValues(orch'.stats.by_status) = SumValues(orch.stats.by_status) + 1
          /\ orch'.stats.by_status["FAILED_LLM"]
                = DictGet(orch.stats.by_status, "FAILED_LLM", 0) + 1]_vars

\* The anonymization of the second record of a batch raised a TypeError after
\* the first record was completed: the record is the second result,
\* FAILED_LLM, with the exception text as its only error, and the statistics
\* count one success and one failure.
C26_Witness ==
    /\ call = [kind |-> "process_batch", outcome |-> "returned"]
    /\ results = << 1, 2 >>
    /\ states[1].workflow_status = "COMPLETED"
    /\ states[2].workflow_status = "FAILED_LLM"
    /\ states[2].complaint_anonymized = None
    /\ states[2].errors = << S_TypeError >>
    /\ orch.stats = [total_processed |-> 2, successful |-> 1, failed |-> 1,
                     by_status |-> [st \in {"COMPLETED", "FAILED_LLM"} |-> 1]]


\* ------------------------------------------------------------------------
\* The limit and the source filter of process_batch
\* ------------------------------------------------------------------------
\* The input of the batch: the given list, or the loaded complaints
BatchInput ==
    IF call.complaints = None THEN LoadedComplaints ELSE call.complaints[1]

\* The input without the complaints of another source than the filter's
BatchInputOfSource ==
    IF call.source_filter = None THEN BatchInput
    ELSE SelectSeq(BatchInput, LAMBDA c : c.source = call.source_filter[1])

\* The first n elements of s, all of s when it has fewer
FirstOf(s, n) == SubSeq(s, 1, IF n < Len(s) THEN n ELSE Len(s))

\* process_batch was called with a count limit
SelectedWithLimit == call.kind = "process_batch.select" /\ call.limit # None

\* C27: when a count limit L >= 0 is passed to process_batch, the records it
\* processes are the first L of the input, in order, the input being filtered
\* by source first when a source filter is given; so they are at most L.
\* (Violated: a limit of 0 selects every record, and the source filter is
\* ignored when the complaints are given.)
C27_LimitTakesFirst ==
    SelectedWithLimit =>
       /\ Len(call.selected) <= call.limit[1]
       /\ call.selected = FirstOf(BatchInputOfSource, call.limit[1])


\* ------------------------------------------------------------------------
\* Routing with no team
\* ------------------------------------------------------------------------
\* The route stage of record i has ended with a status
RouteEnded(i) ==
    \E n \in 1..Len(writes) : /\ writes[n].rec = i
                              /\ writes[n].status \in {"ROUTED", "FAILED_ROUTING"}

\* No search of record i returned: the router used the category mapping
NoSearchResult(i) ==
    \A n \in 1..Len(calls) :
       (calls[n].rec = i /\ calls[n].collab = "search") => ~ calls[n].ok

\* What the communicate stage leaves behind for record i: a call of the
\* ticket or e-mail collaborators, a status it writes, a saved step
CommunicateRan(i) ==
    \/ \E n \in 1..Len(calls) :
          calls[n].rec = i /\ calls[n].collab \notin {"llm", "search"}
    \/ \E n \in 1..Len(writes) :
          /\ writes[n].rec = i
          /\ writes[n].status \in {"TICKET_CREATED", "NOTIFIED", "COMPLETED",
                                    "FAILED_JIRA", "FAILED_EMAIL"}
    \/ i = cur /\ \E n \in 1..Len(cosmos_log) : cosmos_log[n].step = "communicate"

RoutedLocally ==
    /\ call.kind = "router.execute"
    /\ call.search \in {"empty", "raises"} \/ calls = <<>>
    /\ agents.router.teams # <<>>

\* The places <<t, c>> of the categories the teams declare
DeclaredAt(teams) ==
    {p \in (1..Len(teams)) \X (1..2) : p[2] <= Len(teams[p[1]].categories)}

\* The category declared at place p, in lower case
DeclaredKey(teams, p) == Lower(teams[p[1]].categories[p[2]])

\* Place p comes before place q in declaration order
DeclaredBefore(p, q) == p[1] < q[1] \/ (p[1] = q[1] /\ p[2] < q[2])

\* The team mapped to key: the last team that declares it
MappedTeam(teams, key) ==
    teams[CHOOSE t \in 1..Len(teams) :
             /\ \E p \in DeclaredAt(teams) : p[1] = t /\ DeclaredKey(teams, p) = key
             /\ \A p \in DeclaredAt(teams) :
                   (p[1] > t) => DeclaredKey(teams, p) # key]

\* key contains the category or is contained in it
RelatedKey(key, category) == Contains(category, key) \/ Contains(key, category)

\* The name carries the second-line-support marker
SecondLine(name) ==
    Contains(RouterText.atendimento, Lower(name)) \/ Contains(RouterText.n2, Lower(name))

\* The team the cascade gives for a category in lower case
CascadeTeam(teams, category) ==
    IF \E p \in DeclaredAt(teams) : DeclaredKey(teams, p) = category
    THEN MappedTeam(teams, category)
    ELSE IF \E p \in DeclaredAt(teams) : RelatedKey(DeclaredKey(teams, p), category)
    THEN MappedTeam(teams,
             DeclaredKey(teams,
                 CHOOSE p \in DeclaredAt(teams) :
                    /\ RelatedKey(DeclaredKey(teams, p), category)
                    /\ \A q \in DeclaredAt(teams) :
                          DeclaredBefore(q, p) =>
                             ~ RelatedKey(DeclaredKey(teams, q), category)))
    ELSE IF \E t \in 1..Len(teams) : SecondLine(teams[t].name)
    THEN teams[CHOOSE t \in 1..Len(teams) :
                  /\ SecondLine(teams[t].name)
                  /\ \A u \in 1..(t - 1) : ~ SecondLine(teams[u].name)]
    ELSE teams[1]

\* The decision names the team
Names(decision, team) ==
    /\ decision.team_id = team.id
    /\ decision.team = team.name
    /\ decision.responsible_email = team.email

\* C29: local routing takes the team mapped to the category by exact match
\* without regard to case; otherwise the team of the first declared key that
\* contains the category or is contained in it; otherwise the first team
\* whose name has the second-line marker; otherwise the first team.  The
\* decision is that function of the category and the team list, whatever
\* the search did.
C29_RoutingCascade ==
    RoutedLocally =>
       /\ states[1].routing_decision # None
       /\ Names(states[1].routing_decision[1],
                CascadeTeam(agents.router.teams, Lower(CategoryValue(call.category))))

\* "Produto com defeito" is declared by no team; "produto", declared by the
\* second team, is part of it, and the record went to that team.
C29_Witness ==
    /\ RoutedLocally
    /\ call.category = "PRODUTO_DEFEITO"
    /\ agents.router.teams = << TeamLogistica, TeamProdutos >>
    /\ states[1].workflow_status = "ROUTED"
    /\ states[1].routing_decision[1].team_id = TeamProdutos.id


\* ------------------------------------------------------------------------
\* _parse_category
\* ------------------------------------------------------------------------
\* _parse_category was applied
CategoryParsed == call.kind = "_parse_category"

\* The mapping keys equal to the normalized string
EqualKeys(normalized) ==
    {i \in 1..Len(CategoryMappings) : CategoryMappings[i].key = normalized}

\* The mapping keys that contain the normalized string or are contained in it
SubstringKeys(normalized) ==
    {i \in 1..Len(CategoryMappings) :
        \/ Contains(normalized, CategoryMappings[i].key)
        \/ Contains(CategoryMappings[i].key, normalized)}

\* The category follows the cascade for the normalized string: an equal key,
\* else a key related by containment, else the default; and the default for
\* the empty string
ParsedByCascade(normalized, category) ==
    /\ category \in ComplaintCategory
    /\ IF EqualKeys(normalized) # {}
       THEN \E i \in EqualKeys(normalized) : category = CategoryMappings[i].value
       ELSE IF SubstringKeys(normalized) # {} /\ normalized # <<>>
       THEN \E i \in SubstringKeys(normalized) : category = CategoryMappings[i].value
       ELSE category = "ATENDIMENTO_RUIM"

\* C30: _parse_category returns one of the 10 categories for every string: the
\* category mapped to the lower-cased, trimmed string when it is a key;
\* otherwise the category of a key that contains it or is contained in it;
\* otherwise Atendimento ruim.  The empty string and a string of blanks name
\* no category and give Atendimento ruim.
\* (Violated: the empty string is part of every key and gives the category of
\* the first key, Atraso na entrega.)
C30_ParseCategoryCascade ==
    /\ Cardinality(ComplaintCategory) = 10
    /\ CategoryParsed =>
          ParsedByCascade(Strip(Lower(call.category_str)), call.category)


\* ------------------------------------------------------------------------
\* The fields of the anonymized copy
\* ------------------------------------------------------------------------
\* The anonymize step of the current record returns
AnonymizeReturns == pc = "run" /\ step = "anonymize" /\ pc' # "raised"

\* copy is raw with description, title and consumer_contact each replaced by
\* the masked text of that field of raw, and every other field as in raw
MaskedCopy(copy, raw) ==
    /\ DOMAIN copy = DOMAIN raw
    /\ \A f \in UnmaskedFields : copy[f] = raw[f]
    /\ copy.description = MaskPii(raw.description).text
    /\ copy.title = MaskPii(raw.title).text
    /\ copy.consumer_contact =
          IF raw.consumer_contact = None THEN None
          ELSE Some(MaskPii(raw.consumer_contact[1]).text)

\* C31: the anonymized copy the anonymize step leaves differs from the raw
\* record at most in description, title and consumer_contact; each of the
\* three is the masked text of the same field of the raw record, computed
\* from that field alone, and every other field equals the raw record's.
C31_OnlyThreeFieldsMasked ==
    [][AnonymizeReturns =>
          /\ states'[cur].complaint_anonymized # None
          /\ MaskedCopy(states'[cur].complaint_anonymized[1],
                        states[cur].complaint_raw)]_vars

\* The record with a CPF in its title, an e-mail address in its description
\* and one as its contact was anonymized: the three fields of the copy hold
\* the markers, the source and the consumer name are the raw ones.
C31_Witness ==
    /\ states # <<>>
    /\ states[1].complaint_raw.external_id = C_Pii.external_id
    /\ states[1].complaint_anonymized # None
    /\ states[1].complaint_anonymized[1].consumer_contact = Some(<< "[EMAIL REMOVIDO]" >>)
    /\ Contains(<< "[CPF REMOVIDO]" >>, states[1].complaint_anonymized[1].title)
    /\ Contains(<< "[EMAIL REMOVIDO]" >>, states[1].complaint_anonymized[1].description)
    /\ states[1].complaint_anonymized[1].consumer_name = C_Pii.consumer_name
    /\ states[1].complaint_anonymized[1].source = C_Pii.source


\* ------------------------------------------------------------------------
\* The graph workflow and _execute_workflow
\* ------------------------------------------------------------------------
\* The graph has reached END and _execute_workflow has returned
BothEnded ==
    call.kind = "graph" /\ call.outcome = "returned" /\ call.workflow = "returned"

\* Every collaborator call of the graph run returned
AllCallsReturned == \A n \in 1..Len(calls) : calls[n].ok

\* C32: for the same record and the same collaborator outcomes the graph
\* workflow ends with the workflow_status _execute_workflow ends with, and it
\* ends COMPLETED with ticket_info populated when the record reached the
\* communicate stage and every collaborator call returned.
\* (Violated: communicate_node reads ticket_info.ticket_key, which TicketInfo
\* does not have, so a created ticket ends the graph with FAILED_JIRA.)
C32_GraphEndsLikeWorkflow ==
    BothEnded =>
       /\ states[1].workflow_status = states[2].workflow_status
       /\ (AllCallsReturned /\ states[2].workflow_status = "COMPLETED") =>
             /\ states[1].workflow_status = "COMPLETED"
             /\ states[1].ticket_info # None


\* ------------------------------------------------------------------------
\* Termination of a workflow run
\* ------------------------------------------------------------------------
\* The statuses a returned state may have
TerminalStatuses ==
    {"COMPLETED", "FAILED_LLM", "FAILED_ROUTING", "FAILED_JIRA", "FAILED_EMAIL"}

\* The stage executions of the current record's run that have ended: the
\* stages before step while step is about to run, those up to step after it
StageExecutions == IF pc = "run" THEN StepNumber - 1 ELSE StepNumber

\* A step of the run of one record: a stage execution ends and counts one
\* more, a save or a return counts none; a stage starts only as the first
\* of a record or as the one after the stage that was saved.
StagesCounted ==
    /\ (pc = "run" /\ cur' = cur) => (pc' \in {"save", "raised"}
                                      /\ StageExecutions' = StageExecutions + 1)
    /\ (pc = "save" /\ cur' = cur) => StageExecutions' = StageExecutions
    /\ (pc # "run" /\ pc' = "run") =>
          \/ pc = "save" /\ cur' = cur
          \/ pc \in {"idle", "return", "raised"} /\ step' = "anonymize"
                /\ cur' = (IF pc = "idle" THEN 1 ELSE cur + 1)

\* The workflow run of a record has started
RunStarted == pc = "run" /\ step = "anonymize"

\* The workflow run of the current record has returned its state or raised
RunEnded == pc \in {"return", "raised"}

\* C33: a workflow run for one record ends (it returns or raises) when every
\* awaited call returns or raises, after at most four stage executions, each
\* stage run at most once and in the order of the steps; the state a run
\* returns, and every state in the list a call returns, has one of the
\* statuses COMPLETED, FAILED_LLM, FAILED_ROUTING, FAILED_JIRA, FAILED_EMAIL.
C33_RunTerminates ==
    /\ [](pc = "return" => /\ states[cur].workflow_status \in TerminalStatuses
                           /\ StageExecutions <= Len(Steps))
    /\ [](\A n \in 1..Len(results) :
             states[results[n]].workflow_status \in TerminalStatuses)
    /\ [][StagesCounted]_vars
    /\ (RunStarted ~> RunEnded)

\* A run returned after four stage executions: the record was analyzed and
\* routed, create_ticket raised and the communicate stage failed it.
C33_Witness ==
    /\ pc = "return" /\ step = "communicate" /\ StageExecutions = 4
    /\ call.kind = "process_complaint"
    /\ states[1].workflow_status = "FAILED_JIRA"
    /\ states[1].routing_decision # None
    /\ states[1].ticket_info = None


\* ------------------------------------------------------------------------
\* Completed records
\* ------------------------------------------------------------------------
\* Every part of the record is populated and completed_at is set
FullyPopulated(state) ==
    /\ state.complaint_anonymized # None
    /\ state.complaint_analyzed # None
    /\ state.routing_decision # None
    /\ state.ticket_info # None
    /\ state.notification_info # None
    /\ state.completed_at # None

\* C34: in every state process_complaint or process_batch returns, status
\* COMPLETED implies that complaint_anonymized, complaint_analyzed,
\* routing_decision, ticket_info and notification_info are populated and
\* completed_at is set, and completed_at is set only when the status is
\* COMPLETED.
C34_CompletedIsPopulated ==
    InWorkflow =>
       \A n \in 1..Len(results) :
          /\ states[results[n]].workflow_status = "COMPLETED" =>
                FullyPopulated(states[results[n]])
          /\ states[results[n]].completed_at # None =>
                states[results[n]].workflow_status = "COMPLETED"

\* A batch returned two records: the first got its ticket and failed at the
\* team notification, so it has no completed_at; the second is COMPLETED
\* with every part populated.
C34_Witness ==
    /\ call = [kind |-> "process_batch", outcome |-> "returned"]
    /\ results = << 1, 2 >>
    /\ states[1].workflow_status = "FAILED_JIRA"
    /\ states[1].ticket_info # None
    /\ states[1].completed_at = None
    /\ states[2].workflow_status = "COMPLETED"
    /\ FullyPopulated(states[2])


\* ------------------------------------------------------------------------
\* Errors and failure statuses
\* ------------------------------------------------------------------------
\* C35: in every state process_complaint or process_batch returns, the error
\* list is non-empty exactly when workflow_status is a FAILED_* value, and a
\* failed state holds exactly one entry: the run of a record ends at its
\* first failure.
C35_ErrorsIffFailed ==
    InWorkflow =>
       \A n \in 1..Len(results) :
          /\ states[results[n]].errors # <<>> <=>
                states[results[n]].workflow_status \in FailedStatuses
          /\ states[results[n]].workflow_status \in FailedStatuses =>
                Len(states[results[n]].errors) = 1

\* process_complaint returned a record that the router failed for want of a
\* team: one entry of the router, status FAILED_ROUTING, the analysis kept.
C35_Witness ==
    /\ call = [kind |-> "process_complaint", outcome |-> "returned"]
    /\ results = << 1 >>
    /\ states[1].workflow_status = "FAILED_ROUTING"
    /\ states[1].complaint_analyzed # None
    /\ Len(states[1].errors) = 1
    /\ IsPrefix(Bracket(RouterText.name), states[1].errors[1])


\* ------------------------------------------------------------------------
\* The order of the collaborator calls of the communicate stage
\* ------------------------------------------------------------------------
\* The calls of collaborator collab in log
CallsTo(log, collab) == SelectSeq(log, LAMBDA c : c.collab = collab)

\* Call n of the run follows a call of collab for the same record that
\* returned
Follows(n, collab) ==
    \E k \in 1..(n - 1) :
        calls[k].rec = calls[n].rec /\ calls[k].collab = collab /\ calls[k].ok

\* A step in which create_ticket is called
TicketRequested == Len(CallsTo(calls', "create_ticket")) > Len(CallsTo(calls, "create_ticket"))

\* C36: in a workflow run create_ticket is called at most once per record,
\* and only on a state whose analysis and routing decision are populated;
\* send_team_notification is called only after create_ticket returned a
\* ticket for the record, and send_customer_notification only after
\* send_team_notification returned for it.
C36_TicketThenNotifications ==
    /\ [](InWorkflow =>
            /\ \A i \in 1..Len(states) :
                   Len(CallsTo(CallsOf(calls, i), "create_ticket")) <= 1
            /\ \A n \in 1..Len(calls) :
                   /\ calls[n].collab = "send_team_notification" =>
                         Follows(n, "create_ticket")
                   /\ calls[n].collab = "send_customer_notification" =>
                         Follows(n, "send_team_notification"))
    /\ [][TicketRequested =>
             /\ step = "communicate"
             /\ states[cur].complaint_analyzed # None
             /\ states[cur].routing_decision # None]_vars

\* The three calls of a run in their order, the last one failing: the ticket
\* was created, the team was notified and the customer notification raised.
C36_Witness ==
    /\ call.kind = "process_complaint"
    /\ Len(calls) >= 3
    /\ calls[Len(calls) - 2].collab = "create_ticket" /\ calls[Len(calls) - 2].ok
    /\ calls[Len(calls) - 1].collab = "send_team_notification" /\ calls[Len(calls) - 1].ok
    /\ calls[Len(calls)].collab = "send_customer_notification" /\ ~ calls[Len(calls)].ok
    /\ states[1].complaint_analyzed # None
    /\ states[1].routing_decision # None


\* ------------------------------------------------------------------------
\* What the communicate stage records on the state
\* ------------------------------------------------------------------------
\* The communicate stage of the current record has ended
CommunicateEnded == pc \in {"save", "return"} /\ step = "communicate"

\* A call of collab for record i returned
CallReturned(i, collab) ==
    \E n \in 1..Len(calls) :
        calls[n].rec = i /\ calls[n].collab = collab /\ calls[n].ok

\* C37: after the communicate stage notification_info is populated exactly
\* when send_team_notification returned for the record, whatever the
\* customer notification did, and ticket_info is populated exactly when
\* create_ticket returned a ticket for the record.
\* (Violated: notification_info is assigned after the customer notification,
\* so a customer notification that raises leaves it empty.)
C37_InfoIffSent ==
    CommunicateEnded =>
       /\ states[cur].notification_info # None <=>
             CallReturned(cur, "send_team_notification")
       /\ states[cur].ticket_info # None <=> CallReturned(cur, "create_ticket")


\* ------------------------------------------------------------------------
\* Two interleaved process_batch runs
\* ------------------------------------------------------------------------
\* The records of the tasks: a task and a position in its list
TaskRecords == {tr \in Tasks \X (1..MaxBatch) : tr[2] <= Len(call[tr[1]].refs)}

\* The number of records in the lists of the tasks 1..t
RECURSIVE RecordsUpTo(_, _)
RecordsUpTo(lists, t) ==
    IF t = 0 THEN 0 ELSE Len(lists[t]) + RecordsUpTo(lists, t - 1)

\* Every task has returned or raised
AllTasksDone == \A t \in Tasks : pc[t] = "done"

\* C38: when process_batch runs of background tasks on one orchestrator
\* interleave at their awaits, every record has a ComplaintState object of
\* its own (and with it an error list of its own), the state of every
\* record is at every moment what the same record and collaborator outcomes
\* give in a run that has the orchestrator to itself, every returned record
\* is counted once, and when all runs have ended total_processed is the
\* number of records of all runs and successful + failed = total_processed.
C38_TasksDoNotInterfere ==
    /\ \A x, y \in TaskRecords :
          x # y => call[x[1]].refs[x[2]] # call[y[1]].refs[y[2]]
    /\ \A x \in TaskRecords :
          states[call[x[1]].refs[x[2]]] = call[x[1]].alone[x[2]]
    /\ orch.stats.total_processed = RecordsUpTo(results, MaxTasks)
    /\ orch.stats.successful + orch.stats.failed = orch.stats.total_processed
    /\ AllTasksDone =>
          orch.stats.total_processed = RecordsUpTo([t \in Tasks |-> call[t].refs], MaxTasks)

\* Both runs returned after they had interleaved: the analyst was initialized
\* more than twice, the second task's ticket was created before the first
\* task's, and the three records are counted, one completed by each task.
C38_Witness ==
    /\ AllTasksDone
    /\ \A t \in Tasks : call[t].outcome = "returned"
    /\ Len(call[1].refs) = 2
    /\ orch.stats.total_processed = 3
    /\ orch.stats.successful = 2
    /\ orch.stats.failed = 1
    /\ states[call[1].refs[2]].workflow_status = "COMPLETED"
    /\ states[call[2].refs[1]].workflow_status = "COMPLETED"
    /\ states[call[2].refs[1]].ticket_info[1].jira_id = JiraFirstCounter + 1
    /\ states[call[1].refs[2]].ticket_info[1].jira_id = JiraFirstCounter + 2
    /\ agents.analyst.init_runs > 2


\* ------------------------------------------------------------------------
\* Errors of the graph state
\* ------------------------------------------------------------------------
\* C39: in the graph workflow a state whose workflow_status has the FAILED
\* prefix has a non-empty errors list: the failure a stage agent recorded on
\* its own state is carried into the graph state.
\* (Violated: the nodes copy the status of the agent's state and not its
\* errors.)
C39_GraphFailureHasError ==
    (call.kind = "graph" /\ GraphFailed(states[1].workflow_status)) =>
        states[1].errors # <<>>

====
